---- MODULE Spec2Model ----
(***************************************************************************)
(* Streaming-event consumption and client-side reconciliation of the opps  *)
(* frontend: the event channel (streamAnalysisEvents in utils/api.ts), the *)
(* event normalizer, the changes merge (mergeChangeReadState) and the      *)
(* monitor orchestrator (the handlers of ImageCombiner in                  *)
(* components/image-combiner.tsx).                                         *)
(*                                                                         *)
(* Several specifications share the variables:                               *)
(*   SpecMerge - the pure merge function applied to bounded snapshots;     *)
(*   SpecChan  - one event channel driven by its transport and pulled by   *)
(*               a consumer at arbitrary times;                            *)
(*   SpecChanFair - SpecChan with a consumer that keeps pulling;           *)
(*   SpecNorm, SpecStage, SpecUrl - the pure functions of the normalizer,  *)
(*               the stage tracker and the URL helpers on bounded inputs;  *)
(*   Spec      - the orchestrator: runs of handleSubmit, each with its own *)
(*               channel, interleaved with the other handlers;             *)
(*   SpecSel, SpecBulk - the selection and the batched mark-read of the    *)
(*               changes panel;                                            *)
(*   SpecCalls - one server call of a handler and its catch block;         *)
(*   SpecLoad  - loadMonitors and the callers that await it;               *)
(*   SpecAdapt - the peer and change adapters on payloads of every shape;  *)
(*   SpecMark  - handleMarkChangeRead;                                     *)
(*   SpecKnown - the updates of the known-monitors list;                   *)
(*   SpecReplay - the live loop and the one-shot load on one event list.   *)
(***************************************************************************)
EXTENDS Integers, Sequences, FiniteSets, TLC

\* ------------------------------------------------------------- bounds

\* longest changes snapshot drawn as an input of the merge
MaxLen == 2
\* largest read timestamp drawn as an input (0 stands for null)
MaxTime == 2
\* messages the transport delivers on one channel in SpecChan
MaxMsgs == 3
\* calls of the cancel handle on one channel in SpecChan
MaxCancels == 2

\* ------------------------------------------------------------- values

\* a missing (or wrong-typed) field of a decoded message
Absent == "absent"
\* null read marker of a change (readAt: null)
NullRead == 0
\* the null result of normalizeEvent
NoEvent == [type |-> "none"]
\* err.message of a rejected network call: the detail the backend sent
RequestFailed == "Request failed"

ChangeIds == {"c1", "c2"}
Times == 0..MaxTime

\* the payload of a stage or status message: the task that produced it and
\* its changes list (tenant and changes stages read the part they need)
NoData == [task |-> 0, changes |-> <<>>]

\* ------------------------------------------------------------- sequences

RECURSIVE SeqsUpTo(_, _)
SeqsUpTo(S, n) ==
    IF n = 0 THEN {<<>>}
    ELSE LET shorter == SeqsUpTo(S, n - 1)
         IN  shorter \cup {Append(s, x) : s \in {t \in shorter : Len(t) = n - 1}, x \in S}

IsPrefix(s, t) == Len(s) <= Len(t) /\ \A i \in 1..Len(s) : s[i] = t[i]

Ids(list) == {list[i].id : i \in 1..Len(list)}

\* ------------------------------------------------------------- mergeChangeReadState

\* previousById.get(id): the Map built from previous keeps the last entry of an id
MapGet(previous, id) ==
    LET idx == {i \in 1..Len(previous) : previous[i].id = id}
    IN  previous[CHOOSE i \in idx : \A j \in idx : j <= i]

\* existing.readAt ?? entry.readAt
Coalesce(a, b) == IF a # NullRead THEN a ELSE b

\* variant: the incoming marker always wins
MergeEntryIncomingWins(previous, entry) == entry

MergeEntry(previous, entry) ==
    IF entry.id \in Ids(previous)
    THEN [entry EXCEPT !.readAt = Coalesce(MapGet(previous, entry.id).readAt, entry.readAt)]
    ELSE entry

\* variant: the changes that only the previous list holds are kept at the end
mergeKeepsLocalOnly(previous, next) ==
    [i \in 1..Len(next) |-> MergeEntry(previous, next[i])]
    \o SelectSeq(previous, LAMBDA e : e.id \notin Ids(next))

mergeChangeReadState(previous, next) ==
    [i \in 1..Len(next) |-> MergeEntry(previous, next[i])]

\* ------------------------------------------------------------- normalizeEvent

\* variant: a message without a type tag is taken for a status message
normalizeEventNoDefault(payload) ==
    IF payload.kind # "object" THEN NoEvent
    ELSE IF payload.type = "stage" /\ payload.stage \in {"tenant", "competitors", "changes"}
         THEN [type |-> "stage", stage |-> payload.stage, message |-> Absent,
               data |-> payload.data]
         ELSE [type |-> "status",
               stage |-> IF payload.stage = Absent THEN "unknown" ELSE payload.stage,
               message |-> payload.message, data |-> payload.data]

\* A decoded message is [kind, type, stage, message, data]; kind is the JSON
\* kind of the value ("object", or "null", "number", "string", "boolean"), and a
\* field that is missing or not a string is Absent.
normalizeEvent(payload) ==
    IF payload.kind # "object" THEN NoEvent
    ELSE LET type == IF payload.type = Absent THEN "stage" ELSE payload.type
             stageValue == payload.stage
         IN  IF type = "stage" /\ stageValue \in {"tenant", "competitors", "changes"}
             THEN [type |-> "stage", stage |-> stageValue, message |-> Absent,
                   data |-> payload.data]
             ELSE [type |-> "status",
                   stage |-> IF stageValue = Absent THEN "unknown" ELSE stageValue,
                   message |-> payload.message, data |-> payload.data]

\* a transport message: its body parses as JSON (json) to the value payload
Msg(json, kind, type, stage, message, data) ==
    [json |-> json,
     payload |-> [kind |-> kind, type |-> type, stage |-> stage,
                  message |-> message, data |-> data]]

\* ------------------------------------------------------------- the event channel
\* streamAnalysisEvents is an async generator.  A channel record holds
\*   gen     where the generator body stands: "suspendedStart" (created, body not
\*           entered), "awaitOpen" (awaiting the open handshake), "awaitNotify"
\*           (awaiting the notify promise on an empty queue), "suspendedYield"
\*           (at the yield, an event handed over), "completed";
\*   sock    the WebSocket: "none", "connecting", "open", "closing" (close()
\*           called by the client), "closed" (closed or errored after open),
\*           "failed" (errored before it opened);
\*   queue, notify, closed   the locals of the generator;
\*   nextPending   the consumer's next() has not been answered yet;
\*   retPending    a return() is queued behind the running body: the runtime
\*                 serves it only when the body reaches a yield or ends;
\*   out     the answer to the consumer's next(): "value" with its event, "done",
\*           "throw", or "none" while there is no unread answer.
\* The consumer has at most one next() outstanding (it awaits each one).

NoOut == [r |-> "none", event |-> NoEvent]

NewChannel ==
    [gen |-> "suspendedStart", sock |-> "none", queue |-> <<>>, notify |-> FALSE,
     closed |-> FALSE, nextPending |-> FALSE, retPending |-> FALSE, out |-> NoOut]

\* socket.close()
SocketClose(sock) == IF sock \in {"connecting", "open"} THEN "closing" ELSE sock

\* variant: the finally block does not release the socket
FinallyLeavesSocket(c) == [c EXCEPT !.gen = "completed"]

\* finally { socket.close() }, after which the generator has completed
Finally(c) == [c EXCEPT !.sock = SocketClose(@), !.gen = "completed"]

\* the generator ends: the outstanding next() is answered done, queued return()s resolve
Complete(c) ==
    [Finally(c) EXCEPT !.out = IF c.nextPending THEN [r |-> "done", event |-> NoEvent]
                                                   ELSE c.out,
                       !.nextPending = FALSE, !.retPending = FALSE, !.notify = FALSE]

\* yield event: answers the outstanding next(); a queued return() then resumes the
\* body at the yield with a return completion, which runs the finally block
Yield(c, event) ==
    LET handed == [c EXCEPT !.gen = "suspendedYield", !.nextPending = FALSE,
                            !.out = [r |-> "value", event |-> event]]
    IN  IF c.retPending THEN [Finally(handed) EXCEPT !.retPending = FALSE] ELSE handed

\* variant: the loop pops the newest buffered event instead of the oldest
RunLoopNewestFirst(c) ==
    IF ~c.closed \/ Len(c.queue) > 0
    THEN IF Len(c.queue) = 0
         THEN [c EXCEPT !.notify = TRUE, !.gen = "awaitNotify"]
         ELSE Yield([c EXCEPT !.queue = SubSeq(@, 1, Len(@) - 1)], c.queue[Len(c.queue)])
    ELSE Complete(c)

\* variant: once the connection has closed the loop ends, whatever is buffered
RunLoopStopsAtClose(c) ==
    IF ~c.closed
    THEN IF Len(c.queue) = 0
         THEN [c EXCEPT !.notify = TRUE, !.gen = "awaitNotify"]
         ELSE Yield([c EXCEPT !.queue = Tail(@)], Head(c.queue))
    ELSE Complete(c)

\* the body from the head of `while (!closed || queue.length > 0)` up to its next
\* await, yield or end
RunLoop(c) ==
    IF ~c.closed \/ Len(c.queue) > 0
    THEN IF Len(c.queue) = 0
         THEN [c EXCEPT !.notify = TRUE, !.gen = "awaitNotify"]
         ELSE Yield([c EXCEPT !.queue = Tail(@)], Head(c.queue))
    ELSE Complete(c)

\* iterator.next()
GenNext(c) ==
    CASE c.gen = "suspendedStart" ->
            [c EXCEPT !.gen = "awaitOpen", !.sock = "connecting", !.nextPending = TRUE]
      [] c.gen = "suspendedYield" -> RunLoop([c EXCEPT !.nextPending = TRUE])
      [] c.gen = "completed" -> [c EXCEPT !.out = [r |-> "done", event |-> NoEvent]]
      [] OTHER -> c

\* variant: a return() on a running body withdraws the one queued before it
GenReturnToggles(c) ==
    CASE c.gen = "suspendedStart" -> [c EXCEPT !.gen = "completed"]
      [] c.gen = "suspendedYield" -> Finally(c)
      [] c.gen \in {"awaitOpen", "awaitNotify"} -> [c EXCEPT !.retPending = ~@]
      [] OTHER -> c

\* iterator.return()
GenReturn(c) ==
    CASE c.gen = "suspendedStart" -> [c EXCEPT !.gen = "completed"]
      [] c.gen = "suspendedYield" -> Finally(c)
      [] c.gen \in {"awaitOpen", "awaitNotify"} -> [c EXCEPT !.retPending = TRUE]
      [] OTHER -> c

\* 'open' before any 'error': the handshake promise resolves, the listeners are
\* registered and the loop is entered
OnOpen(c) == RunLoop([c EXCEPT !.sock = "open"])

\* variant: an 'error' before 'open' ends the sequence without an error
OnConnectErrorEndsQuietly(c) ==
    [c EXCEPT !.sock = "failed", !.gen = "completed", !.nextPending = FALSE,
              !.retPending = FALSE, !.out = [r |-> "done", event |-> NoEvent]]

\* 'error' before 'open': the handshake promise rejects and the generator throws
\* outside its try block
OnConnectError(c) ==
    [c EXCEPT !.sock = "failed", !.gen = "completed", !.nextPending = FALSE,
              !.retPending = FALSE, !.out = [r |-> "throw", event |-> NoEvent]]

\* the wake-up shared by the message listener and finalize
Wake(c) == IF c.notify THEN RunLoop([c EXCEPT !.notify = FALSE]) ELSE c

\* variant: a body that does not parse is enqueued as a status event
OnMessageEnqueuesNoise(c, m) ==
    LET normalized == IF m.json THEN normalizeEvent(m.payload)
                      ELSE [type |-> "status", stage |-> "unknown", message |-> Absent,
                            data |-> NoData]
    IN  IF normalized = NoEvent THEN c
        ELSE Wake([c EXCEPT !.queue = Append(@, normalized)])

\* variant: the message listener enqueues without waking the consumer
OnMessageNoWake(c, m) ==
    IF ~m.json \/ normalizeEvent(m.payload) = NoEvent THEN c
    ELSE [c EXCEPT !.queue = Append(@, normalizeEvent(m.payload))]

\* the 'message' listener
OnMessage(c, m) ==
    IF ~m.json THEN c
    ELSE LET normalized == normalizeEvent(m.payload)
         IN  IF normalized = NoEvent THEN c
             ELSE Wake([c EXCEPT !.queue = Append(@, normalized)])

\* finalize, the 'close' and 'error' listener
OnClose(c) == Wake([c EXCEPT !.closed = TRUE, !.sock = "closed"])

\* ------------------------------------------------------------- state

VARIABLES
    \* SpecMerge: the local snapshot, the incoming one, the merged result, the step
    mPrev, mNext, mOut, mPc,
    \* SpecChan: the channel, its consumer ("idle", "pulling", "finished"), the
    \* calls of cancel and the messages sent so far, and the history of the
    \* events enqueued (arrived) and handed to the consumer (delivered); chCloseBuf
    \* is the number of events buffered when the connection closed (-1 before),
    \* chRaw the messages the transport has delivered
    ch, chCons, chCancels, chSent, arrived, delivered, chCloseBuf, chRaw,
    \* Spec, the state of ImageCombiner (useState and useRef):
    view, error, isSubmitting, tenant, changes, monitors, currentMonitorId,
    activeTaskId, streamRef,
    \* the invocations of handleSubmit: runs[r] is [pc, cancelled, url, sent, late]
    \* with pc "idle" (not invoked), "starting" (awaiting startAnalysis),
    \* "streaming" (awaiting streamIterator.next()), "awaitMonitors" and
    \* "awaitArchives" (the complete branch), "done"; cancelled is the local of
    \* that name; sent counts the messages of its stream; late (history) tells
    \* that the loop met an event with cancelled set; chans[r] is its channel;
    \* nextRun the next to invoke
    runs, chans, nextRun,
    \* the backend: the monitors it knows and the latest task of each (0: none)
    srvMon, srvLatest,
    \* requests in flight: loadMonitors ("idle", "list": fetchMonitors pending,
    \* "results": its loadMonitorResults pending), the one-shot fetches of
    \* loadMonitorResults, the delete calls and the mark-read calls
    lmPc, fetches, dels, marks,
    \* history: the changes whose read marker the user has set, and the number of
    \* handlers the user has invoked besides handleSubmit
    userRead, clicks,
    \* the specifications of pure functions: the input drawn, the result, the step
    fnIn, fnOut, fnPc,
    \* SpecStage, the lists of ImageCombiner that stage snapshots are applied to
    \* (with changes): the displayed peers and the tracked ids; manual (history) is
    \* the set of peers the user added and did not remove, stSnap the stage
    \* snapshot applied by the last step (none after an edit), stPc the step
    competitorCards, trackedCompetitorIds, manual, stSnap, stPc,
    \* SpecSel and SpecBulk, the state of ChangesPanel (with changes and error):
    \* the selection, the paging and the filter; isBulkMarkPending of
    \* ImageCombiner, bulkIds the ids of the last batched request, bulkSent
    \* (history) the batched requests issued, selOp (history) the last handler run
    selectedChanges, isSelectionMode, searchPage, pageSize, threatThreshold,
    isBulkMarkPending, bulkIds, bulkSent, selOp,
    \* SpecCalls, one backend call of a handler of ImageCombiner or ResultsView
    \* (with monitors and error): the access flag, the call in flight, and
    \* (history) the last call settled with its outcome
    hasMonitorAccess, pendingCall, lastCall,
    \* SpecLoad, loadMonitors and its callers: the promise kept in
    \* loadMonitorsPromiseRef (0: null), the requests in flight, the request each
    \* caller awaits (0: none), and (history) the list fetches issued
    loadMonitorsPromiseRef, inFlight, waiting, issued

mergeVars == <<mPrev, mNext, mOut, mPc>>
chanVars == <<ch, chCons, chCancels, chSent, arrived, delivered, chCloseBuf, chRaw>>
uiVars == <<view, error, isSubmitting, tenant, changes, monitors, currentMonitorId,
            activeTaskId>>
runVars == <<streamRef, runs, chans, nextRun>>
srvVars == <<srvMon, srvLatest>>
asyncVars == <<lmPc, fetches, dels, marks>>
orchVars == <<uiVars, runVars, srvVars, asyncVars, userRead, clicks>>
pureVars == <<fnIn, fnOut, fnPc>>
stageVars == <<competitorCards, trackedCompetitorIds, manual, stSnap, stPc>>
selVars == <<selectedChanges, isSelectionMode, searchPage, pageSize, threatThreshold,
             isBulkMarkPending, bulkIds, bulkSent, selOp>>
callVars == <<hasMonitorAccess, pendingCall, lastCall>>
loadVars == <<loadMonitorsPromiseRef, inFlight, waiting, issued>>
sideVars == <<selVars, callVars, loadVars>>
auxVars == <<pureVars, stageVars, sideVars>>
vars == <<mergeVars, chanVars, orchVars, auxVars>>

MergeIdle == mPrev = <<>> /\ mNext = <<>> /\ mOut = <<>> /\ mPc = "off"
ChanIdle ==
    /\ ch = NewChannel /\ chCons = "off" /\ chCancels = 0 /\ chSent = 0
    /\ arrived = <<>> /\ delivered = <<>> /\ chCloseBuf = -1 /\ chRaw = <<>>
PureIdle == fnIn = <<>> /\ fnOut = <<>> /\ fnPc = "off"
StageIdle ==
    /\ competitorCards = <<>> /\ trackedCompetitorIds = <<>> /\ manual = {}
    /\ stSnap = <<>> /\ stPc = "off"
SelIdle ==
    /\ selectedChanges = {} /\ isSelectionMode = FALSE /\ searchPage = 0
    /\ pageSize = 0 /\ threatThreshold = 0 /\ isBulkMarkPending = FALSE
    /\ bulkIds = {} /\ bulkSent = 0 /\ selOp = "off"
CallIdle == hasMonitorAccess = FALSE /\ pendingCall = <<>> /\ lastCall = <<>>
LoadIdle ==
    /\ loadMonitorsPromiseRef = 0 /\ inFlight = {} /\ waiting = <<>> /\ issued = 0
SideIdle == SelIdle /\ CallIdle /\ LoadIdle
AuxIdle == PureIdle /\ StageIdle /\ SideIdle
OrchIdle ==
    /\ view = "off" /\ error = "none" /\ isSubmitting = FALSE /\ tenant = 0
    /\ changes = <<>> /\ monitors = <<>> /\ currentMonitorId = 0 /\ activeTaskId = 0
    /\ streamRef = 0 /\ runs = <<>> /\ chans = <<>> /\ nextRun = 0
    /\ srvMon = {} /\ srvLatest = <<>> /\ lmPc = "off" /\ fetches = {} /\ dels = {}
    /\ marks = {} /\ userRead = {} /\ clicks = 0

\* ------------------------------------------------------------- SpecMerge

\* a local snapshot and an incoming (adapted) snapshot; the content field stands for
\* every field of a change other than id and readAt; an id names one change, so a
\* snapshot holds one entry per id
DistinctIds(list) == \A i, j \in 1..Len(list) : list[i].id = list[j].id => i = j
Snaps(content) ==
    {s \in SeqsUpTo([id : ChangeIds, readAt : Times, content : {content}], MaxLen) :
        DistinctIds(s)}
LocalSnaps == Snaps("local")
IncomingSnaps == Snaps("incoming")

InitMerge ==
    /\ mPrev \in LocalSnaps
    /\ mNext \in IncomingSnaps
    /\ mOut = <<>>
    /\ mPc = "input"
    /\ ChanIdle
    /\ OrchIdle
    /\ AuxIdle

\* setChanges((previous) => mergeChangeReadState(previous, radar))
ApplyMerge ==
    /\ mPc = "input"
    /\ mOut' = mergeChangeReadState(mPrev, mNext)
    /\ mPc' = "merged"
    /\ UNCHANGED <<mPrev, mNext, chanVars, orchVars, auxVars>>

\* the merged list is the local snapshot of the next refresh, which brings the
\* same snapshot again or another one
NextRefresh ==
    /\ mPc = "merged"
    /\ mPrev' = mOut
    /\ mNext' \in IncomingSnaps
    /\ mOut' = <<>>
    /\ mPc' = "input"
    /\ UNCHANGED <<chanVars, orchVars, auxVars>>

NextMerge == ApplyMerge \/ NextRefresh

SpecMerge == InitMerge /\ [][NextMerge]_vars

\* ------------------------------------------------------------- SpecChan

\* the n-th message of the transport: a body that is not JSON, a JSON value that is
\* not an object, an object with an unrecognized type tag, a stage message and a
\* status message, each tagged n
RawMsgs(n) ==
    {Msg(FALSE, "string", Absent, Absent, Absent, NoData),
     Msg(TRUE, "number", Absent, Absent, Absent, NoData),
     Msg(TRUE, "object", "other", "tenant", Absent, [task |-> n, changes |-> <<>>]),
     Msg(TRUE, "object", "stage", "tenant", Absent, [task |-> n, changes |-> <<>>]),
     Msg(TRUE, "object", "status", "progress", Absent, [task |-> n, changes |-> <<>>])}

InitChan ==
    /\ ch = NewChannel
    /\ chCons = "idle"
    /\ chCancels = 0
    /\ chSent = 0
    /\ arrived = <<>>
    /\ delivered = <<>>
    /\ chCloseBuf = -1
    /\ chRaw = <<>>
    /\ MergeIdle
    /\ OrchIdle
    /\ AuxIdle

\* the consumer reads the answer to its next(), if there is one
Settle(c) ==
    /\ ch' = [c EXCEPT !.out = NoOut]
    /\ chCons' = CASE c.out.r = "value" -> "idle"
                   [] c.out.r \in {"done", "throw"} -> "finished"
                   [] c.nextPending -> "pulling"
                   [] OTHER -> chCons
    /\ delivered' = IF c.out.r = "value" THEN Append(delivered, c.out.event) ELSE delivered

\* const { value, done } = await streamIterator.next()
ChPull ==
    /\ chCons = "idle"
    /\ Settle(GenNext(ch))
    /\ UNCHANGED <<chRaw, chCancels, chSent, arrived, chCloseBuf, mergeVars, auxVars, orchVars>>

\* streamRef.current.cancel(): streamIterator.return()
ChCancel ==
    /\ chCons \in {"idle", "pulling", "finished"}
    /\ chCancels < MaxCancels
    /\ chCancels' = chCancels + 1
    /\ Settle(GenReturn(ch))
    /\ UNCHANGED <<chRaw, chSent, arrived, chCloseBuf, mergeVars, auxVars, orchVars>>

ChOpen ==
    /\ ch.sock = "connecting"
    /\ Settle(OnOpen(ch))
    /\ UNCHANGED <<chRaw, chCancels, chSent, arrived, chCloseBuf, mergeVars, auxVars, orchVars>>

ChConnectError ==
    /\ ch.sock = "connecting"
    /\ Settle(OnConnectError(ch))
    /\ UNCHANGED <<chRaw, chCancels, chSent, arrived, chCloseBuf, mergeVars, auxVars, orchVars>>

ChMessage ==
    /\ ch.sock = "open"
    /\ chSent < MaxMsgs
    /\ \E m \in RawMsgs(chSent + 1) :
          /\ Settle(OnMessage(ch, m))
          /\ arrived' = IF m.json /\ normalizeEvent(m.payload) # NoEvent
                        THEN Append(arrived, normalizeEvent(m.payload))
                        ELSE arrived
          /\ chRaw' = Append(chRaw, m)
    /\ chSent' = chSent + 1
    /\ UNCHANGED <<chCancels, chCloseBuf, mergeVars, auxVars, orchVars>>

\* the server closes the connection, or the socket errors after it opened
ChClose ==
    /\ ch.sock = "open"
    /\ chCloseBuf' = Len(ch.queue)
    /\ Settle(OnClose(ch))
    /\ UNCHANGED <<chRaw, chCancels, chSent, arrived, mergeVars, auxVars, orchVars>>

\* the 'close' event that follows the client's own socket.close()
ChCloseAck ==
    /\ ch.sock = "closing"
    /\ Settle(OnClose(ch))
    /\ UNCHANGED <<chRaw, chCancels, chSent, arrived, chCloseBuf, mergeVars, auxVars, orchVars>>

NextChan ==
    \/ ChPull
    \/ ChCancel
    \/ ChOpen
    \/ ChConnectError
    \/ ChMessage
    \/ ChClose
    \/ ChCloseAck

SpecChan == InitChan /\ [][NextChan]_vars

\* the consumer of handleSubmit asks for the next event as soon as it has handled
\* the last one: a pull that is possible is eventually made
SpecChanFair == InitChan /\ [][NextChan]_vars /\ WF_vars(ChPull)

\* ------------------------------------------------------------- SpecNorm

\* the decoded messages: objects with every combination of type tag, stage name
\* and message, and the values that are not objects
Kinds == {"object", "null", "number", "string", "boolean"}
TypeTags == {Absent, "stage", "status", "other"}
StageNames == {Absent, "tenant", "competitors", "changes", "failed", "other"}
Messages == {Absent, "m1", "m2"}
Payloads ==
    {Msg(TRUE, "object", t, g, m, NoData).payload :
        t \in TypeTags, g \in StageNames, m \in Messages}
    \cup {Msg(TRUE, k, Absent, Absent, Absent, NoData).payload : k \in Kinds \ {"object"}}

InitNorm ==
    /\ fnIn \in Payloads
    /\ fnOut = <<>>
    /\ fnPc = "input"
    /\ StageIdle
    /\ SideIdle
    /\ MergeIdle
    /\ ChanIdle
    /\ OrchIdle

\* const normalized = normalizeEvent(raw)
ApplyNormalize ==
    /\ fnPc = "input"
    /\ fnOut' = normalizeEvent(fnIn)
    /\ fnPc' = "normalized"
    /\ UNCHANGED <<fnIn, stageVars, sideVars, mergeVars, chanVars, orchVars>>

NextNorm == ApplyNormalize

SpecNorm == InitNorm /\ [][NextNorm]_vars

\* ------------------------------------------------------------- SpecStage
\* The displayed peers, the tracked ids and the changes of one selected monitor
\* under stage snapshots (from the stream or a re-fetch: the same code) and the
\* manual additions and removals of ResultsView.  A card is [id, tracked]:
\* tracked stands for what toCompetitorCard renders of isTracked.

\* longest peer list of a competitors snapshot
MaxPeers == 2
\* longest tracked-id list of a competitors snapshot
MaxTracked == 2

PeerIds == {"p1", "p2"}
\* the secondary identifier (competitorId) a peer may carry
SecondaryOf(id) == IF id = "p1" THEN "k1" ELSE "k2"
\* the peers the user adds by hand: one the analysis also finds, one it does not
ManualIds == {"p2", "m1"}
\* the ids a tracked-id list may name: a peer's id and another peer's secondary id
TrackIds == {"p1", "k2"}

Range(list) == {list[i] : i \in 1..Len(list)}
DistinctSeqs(S, n) ==
    {q \in SeqsUpTo(S, n) : \A i, j \in 1..Len(q) : q[i] = q[j] => i = j}

\* adapted competitors snapshots: insights [id, competitorId] and tracked ids
Insights == {[id |-> p, competitorId |-> k] : p \in PeerIds, k \in {Absent, "k1", "k2"}}
InsightLists ==
    {q \in SeqsUpTo({x \in Insights : x.competitorId \in {Absent, SecondaryOf(x.id)}},
                    MaxPeers) : DistinctIds(q)}
CompetitorSnaps ==
    {[stage |-> "competitors", competitors |-> c, trackedCompetitorIds |-> t,
      changes |-> <<>>] : c \in InsightLists, t \in DistinctSeqs(TrackIds, MaxTracked)}
\* adapted changes snapshots of the one change c1
ChangeSnaps ==
    {[stage |-> "changes", competitors |-> <<>>, trackedCompetitorIds |-> <<>>,
      changes |-> c] : c \in {q \in IncomingSnaps : Len(q) <= 1 /\ Ids(q) \subseteq {"c1"}}}

\* variant: a peer counts as tracked by its id alone
IsTrackedByIdOnly(insight, trackedIds) ==
    IF Cardinality(Range(trackedIds)) = 0 THEN TRUE
    ELSE insight.id \in Range(trackedIds)

\* trackedSet.size === 0 ? true : trackedSet.has(insight.id) ||
\*   (insight.competitorId ? trackedSet.has(insight.competitorId) : false)
IsTracked(insight, trackedIds) ==
    IF Cardinality(Range(trackedIds)) = 0 THEN TRUE
    ELSE \/ insight.id \in Range(trackedIds)
         \/ (insight.competitorId # Absent /\ insight.competitorId \in Range(trackedIds))

toCompetitorCard(insight, isTracked) == [id |-> insight.id, tracked |-> isTracked]

\* variant: the cards of the snapshot are added to the displayed ones
StageCardsAppends(previous, snapshot) ==
    previous \o [i \in 1..Len(snapshot.competitors) |->
                    toCompetitorCard(snapshot.competitors[i],
                        IsTracked(snapshot.competitors[i], snapshot.trackedCompetitorIds))]

\* setCompetitorCards(cards): the cards of the snapshot replace the displayed ones
StageCards(previous, snapshot) ==
    [i \in 1..Len(snapshot.competitors) |->
        toCompetitorCard(snapshot.competitors[i],
            IsTracked(snapshot.competitors[i], snapshot.trackedCompetitorIds))]

\* trackedFromStage
TrackedFromStage(snapshot, cards) ==
    IF Len(snapshot.trackedCompetitorIds) # 0 THEN snapshot.trackedCompetitorIds
    ELSE [i \in 1..Len(cards) |-> cards[i].id]

\* Array.from(new Set([...previous, id]))
WithId(previous, id) == IF id \in Range(previous) THEN previous ELSE Append(previous, id)

\* the state of ImageCombiner that SpecStage leaves alone
orchRest == <<view, isSubmitting, tenant, monitors, currentMonitorId, activeTaskId,
              runVars, srvVars, asyncVars, userRead, clicks>>

InitStage ==
    /\ competitorCards = <<>>
    /\ trackedCompetitorIds = <<>>
    /\ manual = {}
    /\ stSnap = <<>>
    /\ stPc = "idle"
    /\ OrchIdle
    /\ PureIdle
    /\ SideIdle
    /\ MergeIdle
    /\ ChanIdle

\* a competitors stage snapshot is applied
CompetitorsStage(snapshot) ==
    /\ LET cards == StageCards(competitorCards, snapshot)
       IN  /\ competitorCards' = cards
           /\ trackedCompetitorIds' = TrackedFromStage(snapshot, cards)
    /\ stSnap' = snapshot
    /\ stPc' = "applied"
    /\ UNCHANGED <<manual, changes, error, orchRest, pureVars, sideVars, mergeVars, chanVars>>

\* a changes stage snapshot is applied
ChangesStage(snapshot) ==
    /\ changes' = mergeChangeReadState(changes, snapshot.changes)
    /\ stSnap' = snapshot
    /\ stPc' = "applied"
    /\ UNCHANGED <<competitorCards, trackedCompetitorIds, manual, error, orchRest,
                   pureVars, sideVars, mergeVars, chanVars>>

\* handleAddCompetitor, the track call resolved with the tracked ids `tracked`
AddCompetitorOk(id, tracked) ==
    /\ competitorCards' = <<toCompetitorCard([id |-> id, competitorId |-> id], TRUE)>>
                           \o SelectSeq(competitorCards, LAMBDA item : item.id # id)
    /\ trackedCompetitorIds' = IF Len(tracked) # 0 THEN tracked
                                ELSE WithId(trackedCompetitorIds, id)
    /\ manual' = manual \cup {id}
    /\ stSnap' = <<>>
    /\ stPc' = "edited"
    /\ UNCHANGED <<changes, error, orchRest, pureVars, sideVars, mergeVars, chanVars>>

\* handleAddCompetitor, the track call rejected
AddCompetitorFail ==
    /\ error' = RequestFailed
    /\ stSnap' = <<>>
    /\ stPc' = "edited"
    /\ UNCHANGED <<competitorCards, trackedCompetitorIds, manual, changes,
                   orchRest, pureVars, sideVars, mergeVars, chanVars>>

\* handleRemoveCompetitor: the untrack call resolves (with the tracked ids left) or
\* rejects; the card is removed either way
RemoveCompetitor(id, resolved) ==
    /\ id \in Ids(competitorCards)
    /\ IF resolved
       THEN /\ trackedCompetitorIds' = SelectSeq(trackedCompetitorIds, LAMBDA t : t # id)
            /\ error' = error
       ELSE /\ error' = RequestFailed
            /\ trackedCompetitorIds' = trackedCompetitorIds
    /\ competitorCards' = SelectSeq(competitorCards, LAMBDA item : item.id # id)
    /\ manual' = manual \ {id}
    /\ stSnap' = <<>>
    /\ stPc' = "edited"
    /\ UNCHANGED <<changes, orchRest, pureVars, sideVars, mergeVars, chanVars>>

NextStage ==
    \/ \E snapshot \in CompetitorSnaps : CompetitorsStage(snapshot)
    \/ \E snapshot \in ChangeSnaps : ChangesStage(snapshot)
    \/ \E id \in ManualIds : \E tracked \in {<<>>, <<id>>} : AddCompetitorOk(id, tracked)
    \/ AddCompetitorFail
    \/ \E id \in PeerIds \cup ManualIds : \E resolved \in BOOLEAN : RemoveCompetitor(id, resolved)

SpecStage == InitStage /\ [][NextStage]_vars

\* ------------------------------------------------------------- SpecUrl
\* handleSubmit up to its startAnalysis call, as a function of the text of the form
\* field and of the canonical URL of a known monitor.  A URL text is a record:
\* text is "url", or "empty" (the empty string) or "blank" (white space only);
\* scheme is "", "http://" or "https://"; www tells a leading "www." of the host;
\* path, query and hash are the parts after the host.

Hosts == {"a.com"}
Paths == {"", "/", "/p", "/p/"}
Urls ==
    [text : {"url"}, scheme : {"", "http://", "https://"}, www : BOOLEAN, host : Hosts,
     path : Paths, query : {"", "?q"}, hash : {"", "#h"}]
EmptyUrl ==
    [text |-> "empty", scheme |-> "", www |-> FALSE, host |-> "", path |-> "",
     query |-> "", hash |-> ""]
BlankUrl == [EmptyUrl EXCEPT !.text = "blank"]
\* the normalized form of the empty string
EmptyNormalized == [host |-> "", path |-> "", query |-> "", hash |-> ""]

\* raw.trim()
Trim(raw) == IF raw.text = "blank" THEN EmptyUrl ELSE raw

ensureAbsoluteUrl(raw) ==
    IF raw.text = "empty" THEN raw
    ELSE IF raw.scheme \in {"http://", "https://"} THEN raw
    ELSE [raw EXCEPT !.scheme = "https://"]

\* url.pathname.replace(/\/+$/, ''), and the path is added when it is not empty
StripSlashes(path) ==
    CASE path \in {"", "/"} -> ""
      [] path \in {"/p", "/p/"} -> "/p"

\* the normalized string host + path + search + hash, kept as its parts
normalizeMonitorUrl(raw) ==
    LET candidate == Trim(raw)
    IN  IF candidate.text = "empty" THEN EmptyNormalized
        ELSE LET url == ensureAbsoluteUrl(candidate)
             IN  [host |-> (IF url.www THEN "www." ELSE "") \o url.host,
                  path |-> StripSlashes(url.path),
                  query |-> url.query, hash |-> url.hash]

\* what handleSubmit, called by a signed-in user, has done when it returns or
\* reaches its first await:
\* error is the error shown (setError), cancelled tells streamRef.current?.cancel()
\* was called, cleared that the working snapshot was emptied, started that
\* startAnalysis was called, matched that a monitor with the canonical URL was found
handleSubmitStart(raw, canonical) ==
    LET trimmedUrl == Trim(raw)
    IN  IF trimmedUrl.text = "empty"
        THEN [error |-> "none", cancelled |-> FALSE, cleared |-> FALSE,
              started |-> FALSE, matched |-> FALSE]
        ELSE [error |-> "none", cancelled |-> TRUE, cleared |-> TRUE, started |-> TRUE,
              matched |-> normalizeMonitorUrl(canonical)
                             = normalizeMonitorUrl(ensureAbsoluteUrl(trimmedUrl))]

InitUrl ==
    /\ fnIn \in [url : Urls \cup {EmptyUrl, BlankUrl}, canonical : Urls]
    /\ fnOut = <<>>
    /\ fnPc = "input"
    /\ StageIdle
    /\ SideIdle
    /\ MergeIdle
    /\ ChanIdle
    /\ OrchIdle

\* the form is submitted with the text fnIn.url while a monitor with the
\* canonical URL fnIn.canonical is known
ApplySubmit ==
    /\ fnPc = "input"
    /\ fnOut' = handleSubmitStart(fnIn.url, fnIn.canonical)
    /\ fnPc' = "submitted"
    /\ UNCHANGED <<fnIn, stageVars, sideVars, mergeVars, chanVars, orchVars>>

NextUrl == ApplySubmit

SpecUrl == InitUrl /\ [][NextUrl]_vars

\* ------------------------------------------------------------- Spec: the orchestrator
\* ImageCombiner with an authenticated session.  Every await of a handler is a
\* point where other handlers and events interleave; what runs between two awaits
\* (the microtasks included) is one step.  A network call is served and answered
\* in one step.  Results payloads of the backend carry no read marker.

\* invocations of handleSubmit
MaxRuns == 2
\* messages the backend sends on the stream of one run
MaxStreamMsgs == 2
\* handlers the user invokes besides handleSubmit
MaxClicks == 2

Runs == 1..MaxRuns
Monitors == {1, 2}

\* the monitor with id m has the URL m; the first task of monitor m is m, the task
\* started by run r for monitor m is TaskId(m, r)
TaskId(m, r) == m + Cardinality(Monitors) * r
TaskMonitor(t) == ((t - 1) % Cardinality(Monitors)) + 1
ChangeOf(m) == IF m = 1 THEN "c1" ELSE "c2"

\* new Date().toISOString() of a mark-read
ReadNow == 1

\* the data of the stage messages of task t: its profile and its one change
TaskData(t) ==
    [task |-> t,
     changes |-> <<[id |-> ChangeOf(TaskMonitor(t)), read_at |-> NullRead, content |-> t]>>]

\* the profile snapshot is null (0) without data, else it carries the data's profile
adaptTenantStage(data) == data.task

adaptChangeStage(data) ==
    [i \in 1..Len(data.changes) |->
        [id |-> data.changes[i].id, readAt |-> data.changes[i].read_at,
         content |-> data.changes[i].content]]

TenantMsg(t) == Msg(TRUE, "object", "stage", "tenant", Absent, TaskData(t))
ChangesMsg(t) == Msg(TRUE, "object", "stage", "changes", Absent, TaskData(t))
FailedMsg == Msg(TRUE, "object", "status", "failed", "task failed", NoData)
CompleteMsg == Msg(TRUE, "object", "status", "complete", Absent, NoData)

StreamMsgs(t) == {TenantMsg(t), ChangesMsg(t), FailedMsg, CompleteMsg}

\* fetchAnalysisProgress: the recorded events of task t, normalized
fetchAnalysisProgress(t, hasTenant, hasChanges) ==
    (IF hasTenant THEN <<normalizeEvent(TenantMsg(t).payload)>> ELSE <<>>)
    \o (IF hasChanges THEN <<normalizeEvent(ChangesMsg(t).payload)>> ELSE <<>>)

\* events.find((event) => event.type === 'stage' && event.stage === stage)
HasStage(events, stage) ==
    \E i \in 1..Len(events) : events[i].type = "stage" /\ events[i].stage = stage
FindStage(events, stage) ==
    events[CHOOSE i \in 1..Len(events) :
              /\ events[i].type = "stage" /\ events[i].stage = stage
              /\ \A j \in 1..(i - 1) : ~(events[j].type = "stage" /\ events[j].stage = stage)]

MonitorIds(list) == {list[i].id : i \in 1..Len(list)}
MonitorOf(list, m) == list[CHOOSE i \in 1..Len(list) : list[i].id = m]
WithoutMonitor(list, m) ==
    LET keep == {i \in 1..Len(list) : list[i].id # m}
        RECURSIVE Pick(_)
        Pick(i) == IF i > Len(list) THEN <<>>
                   ELSE IF i \in keep THEN <<list[i]>> \o Pick(i + 1) ELSE Pick(i + 1)
    IN  Pick(1)

\* fetchMonitors: the monitors of the backend, by id
RECURSIVE ServerListFrom(_, _, _)
ServerListFrom(m, known, latest) ==
    IF m > Cardinality(Monitors) THEN <<>>
    ELSE (IF m \in known THEN <<[id |-> m, latestTaskId |-> latest[m]]>> ELSE <<>>)
         \o ServerListFrom(m + 1, known, latest)
fetchMonitors == ServerListFrom(1, srvMon, srvLatest)

NoRun == [pc |-> "idle", cancelled |-> FALSE, url |-> 0, sent |-> 0, late |-> FALSE]
RunTask(r) == TaskId(runs[r].url, r)

\* the component after its mount effects: the results view is shown and the
\* first loadMonitors is in flight
Init ==
    /\ view = "results"
    /\ error = "none"
    /\ isSubmitting = FALSE
    /\ tenant = 0
    /\ changes = <<>>
    /\ monitors = <<>>
    /\ currentMonitorId = 0
    /\ activeTaskId = 0
    /\ streamRef = 0
    /\ runs = [r \in Runs |-> NoRun]
    /\ chans = [r \in Runs |-> NewChannel]
    /\ nextRun = 1
    /\ srvMon = Monitors
    /\ srvLatest = [m \in Monitors |-> IF m = 1 THEN TaskId(1, 0) ELSE 0]
    /\ lmPc = "list"
    /\ fetches = {}
    /\ dels = {}
    /\ marks = {}
    /\ userRead = {}
    /\ clicks = 0
    /\ MergeIdle
    /\ ChanIdle
    /\ AuxIdle

\* streamRef.current?.cancel(): cancelled = true; streamIterator.return()
CancelRuns(rs, s) == IF s = 0 THEN rs ELSE [rs EXCEPT ![s].cancelled = TRUE]
CancelChans(cs, s) == IF s = 0 THEN cs ELSE [cs EXCEPT ![s] = GenReturn(@)]

\* loadMonitors(): one request in flight, shared by the callers
loadMonitorsCall(pc) == IF pc = "idle" THEN "list" ELSE pc

\* the callers awaiting loadMonitors go on when it settles
WakeWaiters(rs) ==
    [r \in Runs |-> IF rs[r].pc = "awaitMonitors" THEN [rs[r] EXCEPT !.pc = "awaitArchives"]
                    ELSE rs[r]]

\* ---- handleSubmit

\* up to the startAnalysis call
Submit(u) ==
    /\ view = "form" /\ ~isSubmitting
    /\ nextRun <= MaxRuns
    /\ runs' = [CancelRuns(runs, streamRef) EXCEPT ![nextRun] = [NoRun EXCEPT !.pc = "starting", !.url = u]]
    /\ chans' = CancelChans(chans, streamRef)
    /\ error' = "none"
    /\ isSubmitting' = TRUE
    /\ view' = "results"
    /\ tenant' = 0
    /\ changes' = <<>>
    /\ currentMonitorId' = IF u \in MonitorIds(monitors) THEN u ELSE 0
    /\ nextRun' = nextRun + 1
    /\ UNCHANGED <<mergeVars, auxVars, chanVars, clicks, monitors, activeTaskId, streamRef, srvVars, asyncVars, userRead>>

\* startAnalysis resolves: the monitor is inserted, the stream is created, the
\* cancel handle is stored and the loop asks for the first event
StartOk(r) ==
    /\ runs[r].pc = "starting"
    /\ LET u == runs[r].url
           t == TaskId(u, r)
       IN  /\ srvMon' = srvMon \cup {u}
           /\ srvLatest' = [srvLatest EXCEPT ![u] = t]
           /\ activeTaskId' = t
           /\ monitors' = <<[id |-> u, latestTaskId |-> t]>> \o WithoutMonitor(monitors, u)
           /\ currentMonitorId' = u
    /\ streamRef' = r
    /\ chans' = [chans EXCEPT ![r] = GenNext(NewChannel)]
    /\ runs' = [runs EXCEPT ![r].pc = "streaming"]
    /\ UNCHANGED <<mergeVars, auxVars, chanVars, clicks, view, error, isSubmitting, tenant, changes, nextRun, asyncVars, userRead>>

\* startAnalysis rejects: catch and finally
StartFail(r) ==
    /\ runs[r].pc = "starting"
    /\ error' = RequestFailed
    /\ isSubmitting' = FALSE
    /\ streamRef' = 0
    /\ runs' = [runs EXCEPT ![r].pc = "done"]
    /\ UNCHANGED <<mergeVars, auxVars, chanVars, clicks, view, tenant, changes, monitors, currentMonitorId, activeTaskId, chans,
                   nextRun, srvVars, asyncVars, userRead>>

\* variant: the loop does not look at cancelled after the await
SkipsCancelledIgnored(r) == FALSE

\* `if (done || cancelled) break`, the cancelled half
SkipsCancelled(r) == runs[r].cancelled

\* variant: a failure event also empties the profile and the changes
ProcessFailureClears(r, acc, event) ==
    CASE event.type = "stage" /\ event.stage = "tenant" ->
            [acc EXCEPT !.tenant = adaptTenantStage(event.data)]
      [] event.type = "stage" /\ event.stage = "changes" ->
            [acc EXCEPT !.changes = mergeChangeReadState(acc.changes, adaptChangeStage(event.data))]
      [] event.type = "status" /\ event.stage = "failed" ->
            [acc EXCEPT !.error = IF event.message = Absent THEN "Analysis failed"
                                  ELSE event.message,
                        !.tenant = 0, !.changes = <<>>,
                        !.exit = "finally"]
      [] event.type = "status" /\ event.stage = "complete" ->
            [acc EXCEPT !.activeTaskId = RunTask(r), !.exit = "await"]
      [] OTHER -> acc

\* the body of the loop for one event
Process(r, acc, event) ==
    CASE event.type = "stage" /\ event.stage = "tenant" ->
            [acc EXCEPT !.tenant = adaptTenantStage(event.data)]
      [] event.type = "stage" /\ event.stage = "changes" ->
            [acc EXCEPT !.changes = mergeChangeReadState(acc.changes, adaptChangeStage(event.data))]
      [] event.type = "status" /\ event.stage = "failed" ->
            [acc EXCEPT !.error = IF event.message = Absent THEN "Analysis failed"
                                  ELSE event.message,
                        !.exit = "finally"]
      [] event.type = "status" /\ event.stage = "complete" ->
            [acc EXCEPT !.activeTaskId = RunTask(r), !.exit = "await"]
      [] OTHER -> acc

\* the loop of handleSubmit from the answer of streamIterator.next() to its next
\* await: exit is "wait" (awaiting next() again), "await" (awaiting loadMonitors)
\* or "finally" (the loop is left)
RECURSIVE Consume(_, _)
Consume(r, acc) ==
    LET answer == acc.chan.out
        taken == [acc EXCEPT !.chan.out = NoOut]
    IN  CASE answer.r = "none" -> acc
          [] answer.r = "throw" ->
                [taken EXCEPT !.error = "Unable to establish analysis stream", !.exit = "finally"]
          [] answer.r = "done" -> [taken EXCEPT !.exit = "finally"]
          [] OTHER ->
                IF SkipsCancelled(r) THEN [taken EXCEPT !.late = TRUE, !.exit = "finally"]
                ELSE LET after == Process(r, taken, answer.event)
                     IN  IF after.exit = "wait"
                         THEN Consume(r, [after EXCEPT !.chan = GenNext(@)])
                         ELSE after

\* the continuation of the run r after a transport event took its channel to c,
\* with the finally block of handleSubmit when the loop is left
RunSettles(r, c, sent) ==
    LET res == Consume(r, [chan |-> c, tenant |-> tenant, changes |-> changes,
                           error |-> error, activeTaskId |-> activeTaskId,
                           late |-> runs[r].late, exit |-> "wait"])
    IN  /\ chans' = [chans EXCEPT ![r] = IF res.exit = "finally" THEN GenReturn(res.chan)
                                         ELSE res.chan]
        /\ tenant' = res.tenant
        /\ changes' = res.changes
        /\ error' = res.error
        /\ activeTaskId' = res.activeTaskId
        /\ isSubmitting' = IF res.exit = "finally" THEN FALSE ELSE isSubmitting
        /\ streamRef' = IF res.exit = "finally" THEN 0 ELSE streamRef
        /\ lmPc' = IF res.exit = "await" THEN loadMonitorsCall(lmPc) ELSE lmPc
        /\ runs' = [runs EXCEPT ![r].pc = CASE res.exit = "finally" -> "done"
                                            [] res.exit = "await" -> "awaitMonitors"
                                            [] OTHER -> @,
                                ![r].sent = sent,
                                ![r].late = res.late]

\* ---- the transport of the stream of run r

SockOpen(r) ==
    /\ chans[r].sock = "connecting"
    /\ RunSettles(r, OnOpen(chans[r]), runs[r].sent)
    /\ UNCHANGED <<mergeVars, auxVars, chanVars, clicks, view, monitors, currentMonitorId, nextRun, srvVars, fetches, dels, marks,
                   userRead>>

SockConnectError(r) ==
    /\ chans[r].sock = "connecting"
    /\ RunSettles(r, OnConnectError(chans[r]), runs[r].sent)
    /\ UNCHANGED <<mergeVars, auxVars, chanVars, clicks, view, monitors, currentMonitorId, nextRun, srvVars, fetches, dels, marks,
                   userRead>>

SockMessage(r) ==
    /\ chans[r].sock = "open"
    /\ runs[r].sent < MaxStreamMsgs
    /\ \E m \in StreamMsgs(RunTask(r)) : RunSettles(r, OnMessage(chans[r], m), runs[r].sent + 1)
    /\ UNCHANGED <<mergeVars, auxVars, chanVars, clicks, view, monitors, currentMonitorId, nextRun, srvVars, fetches, dels, marks,
                   userRead>>

\* the backend closes the stream, or the socket errors after it opened
SockClose(r) ==
    /\ chans[r].sock = "open"
    /\ RunSettles(r, OnClose(chans[r]), runs[r].sent)
    /\ UNCHANGED <<mergeVars, auxVars, chanVars, clicks, view, monitors, currentMonitorId, nextRun, srvVars, fetches, dels, marks,
                   userRead>>

\* loadArchives of the complete branch settles: break, then the finally block
ArchivesSettle(r) ==
    /\ runs[r].pc = "awaitArchives"
    /\ chans' = [chans EXCEPT ![r] = GenReturn(@)]
    /\ isSubmitting' = FALSE
    /\ streamRef' = 0
    /\ runs' = [runs EXCEPT ![r].pc = "done"]
    /\ UNCHANGED <<mergeVars, auxVars, chanVars, clicks, view, error, tenant, changes, monitors, currentMonitorId, activeTaskId,
                   nextRun, srvVars, asyncVars, userRead>>

\* ---- loadMonitorResults

\* loadMonitorResults(null)
ClearedTask == 0

\* the one-shot fetch of task f.task resolves
ResultsLoaded(f, hasTenant, hasChanges) ==
    LET events == fetchAnalysisProgress(f.task, hasTenant, hasChanges)
    IN  /\ tenant' = IF HasStage(events, "tenant")
                     THEN adaptTenantStage(FindStage(events, "tenant").data) ELSE 0
        /\ changes' = IF HasStage(events, "changes")
                      THEN mergeChangeReadState(changes,
                               adaptChangeStage(FindStage(events, "changes").data))
                      ELSE <<>>
        /\ activeTaskId' = f.task
        /\ error' = error

\* the one-shot fetch rejects
ResultsFailed(f) ==
    /\ error' = RequestFailed
    /\ UNCHANGED <<tenant, changes, activeTaskId>>

\* what the caller of loadMonitorResults does once it has settled
AfterResults(f) ==
    /\ view' = "results"
    /\ lmPc' = IF f.from = "load" THEN "idle" ELSE lmPc
    /\ runs' = IF f.from = "load" THEN WakeWaiters(runs) ELSE runs
    /\ fetches' = fetches \ {f}

FetchOk(f) ==
    /\ f \in fetches
    /\ \E recorded \in BOOLEAN : ResultsLoaded(f, recorded, recorded)
    /\ AfterResults(f)
    /\ UNCHANGED <<mergeVars, auxVars, chanVars, clicks, isSubmitting, monitors, currentMonitorId, streamRef, chans, nextRun,
                   srvVars, dels, marks, userRead>>

FetchFail(f) ==
    /\ f \in fetches
    /\ ResultsFailed(f)
    /\ AfterResults(f)
    /\ UNCHANGED <<mergeVars, auxVars, chanVars, clicks, isSubmitting, monitors, currentMonitorId, streamRef, chans, nextRun,
                   srvVars, dels, marks, userRead>>

\* ---- loadMonitors

\* handlePrimaryCtaClick
DashboardClick ==
    /\ clicks < MaxClicks
    /\ clicks' = clicks + 1
    /\ view = "form"
    /\ view' = "results"
    /\ lmPc' = loadMonitorsCall(lmPc)
    /\ UNCHANGED <<mergeVars, auxVars, chanVars, error, isSubmitting, tenant, changes, monitors, currentMonitorId,
                   activeTaskId, runVars, srvVars, fetches, dels, marks, userRead>>

\* fetchMonitors resolves
MonitorsLoaded ==
    /\ lmPc = "list"
    /\ LET mapped == fetchMonitors
           preferred == IF currentMonitorId \in MonitorIds(mapped)
                        THEN MonitorOf(mapped, currentMonitorId) ELSE mapped[1]
           latestTaskId == preferred.latestTaskId
           shouldReloadResults == streamRef # 0 \/ latestTaskId # activeTaskId
       IN  /\ monitors' = mapped
           /\ IF mapped = <<>>
              THEN /\ view' = IF streamRef = 0 /\ view = "results" THEN "form" ELSE view
                   /\ currentMonitorId' = 0
                   /\ activeTaskId' = 0
                   /\ tenant' = 0
                   /\ changes' = <<>>
                   /\ lmPc' = "idle"
                   /\ runs' = WakeWaiters(runs)
                   /\ fetches' = fetches
              ELSE /\ currentMonitorId' = preferred.id
                   /\ IF latestTaskId # 0
                      THEN /\ activeTaskId' = latestTaskId
                           /\ UNCHANGED <<tenant, changes>>
                           /\ IF shouldReloadResults
                              THEN /\ fetches' = fetches \cup {[task |-> latestTaskId, from |-> "load"]}
                                   /\ lmPc' = "results"
                                   /\ UNCHANGED <<view, runs>>
                              ELSE /\ view' = "results"
                                   /\ lmPc' = "idle"
                                   /\ runs' = WakeWaiters(runs)
                                   /\ fetches' = fetches
                      ELSE /\ IF streamRef = 0
                              THEN /\ activeTaskId' = 0
                                   /\ tenant' = 0
                                   /\ changes' = <<>>
                                   /\ view' = "results"
                              ELSE UNCHANGED <<activeTaskId, tenant, changes, view>>
                           /\ lmPc' = "idle"
                           /\ runs' = WakeWaiters(runs)
                           /\ fetches' = fetches
    /\ UNCHANGED <<mergeVars, auxVars, chanVars, clicks, error, isSubmitting, streamRef, chans, nextRun, srvVars, dels, marks,
                   userRead>>

\* fetchMonitors rejects
MonitorsFailed ==
    /\ lmPc = "list"
    /\ error' = RequestFailed
    /\ lmPc' = "idle"
    /\ runs' = WakeWaiters(runs)
    /\ UNCHANGED <<mergeVars, auxVars, chanVars, clicks, view, isSubmitting, tenant, changes, monitors, currentMonitorId,
                   activeTaskId, streamRef, chans, nextRun, srvVars, fetches, dels, marks,
                   userRead>>

\* ---- the other handlers

\* handleSwitchMonitor
SwitchMonitor(m) ==
    /\ clicks < MaxClicks
    /\ clicks' = clicks + 1
    /\ view = "results"
    /\ m \in MonitorIds(monitors)
    /\ runs' = CancelRuns(runs, streamRef)
    /\ chans' = CancelChans(chans, streamRef)
    /\ currentMonitorId' = m
    /\ LET latestTaskId == MonitorOf(monitors, m).latestTaskId
       IN  IF latestTaskId = ClearedTask
           THEN /\ activeTaskId' = 0
                /\ tenant' = 0
                /\ changes' = <<>>
                /\ fetches' = fetches
           ELSE /\ fetches' = fetches \cup {[task |-> latestTaskId, from |-> "switch"]}
                /\ UNCHANGED <<activeTaskId, tenant, changes>>
    /\ UNCHANGED <<mergeVars, auxVars, chanVars, view, error, isSubmitting, monitors, streamRef, nextRun, srvVars, lmPc,
                   dels, marks, userRead>>

\* handleRequestMonitorCreate
RequestMonitorCreate ==
    /\ clicks < MaxClicks
    /\ clicks' = clicks + 1
    /\ view = "results"
    /\ runs' = CancelRuns(runs, streamRef)
    /\ chans' = CancelChans(chans, streamRef)
    /\ error' = "none"
    /\ isSubmitting' = FALSE
    /\ activeTaskId' = 0
    /\ tenant' = 0
    /\ changes' = <<>>
    /\ view' = "form"
    /\ UNCHANGED <<mergeVars, auxVars, chanVars, monitors, currentMonitorId, streamRef, nextRun, srvVars, asyncVars,
                   userRead>>

\* handleBackToForm
BackToForm ==
    /\ clicks < MaxClicks
    /\ clicks' = clicks + 1
    /\ view = "results"
    /\ runs' = CancelRuns(runs, streamRef)
    /\ chans' = CancelChans(chans, streamRef)
    /\ streamRef' = 0
    /\ view' = "form"
    /\ error' = "none"
    /\ isSubmitting' = FALSE
    /\ activeTaskId' = 0
    /\ tenant' = 0
    /\ changes' = <<>>
    /\ UNCHANGED <<mergeVars, auxVars, chanVars, monitors, currentMonitorId, nextRun, srvVars, asyncVars, userRead>>

\* handleDeleteMonitor up to the delete call; the handler keeps the currentMonitorId
\* of the render it was created in
DeleteMonitor(m) ==
    /\ clicks < MaxClicks
    /\ clicks' = clicks + 1
    /\ view = "results"
    /\ m \in MonitorIds(monitors)
    /\ dels' = dels \cup {[id |-> m, current |-> currentMonitorId = m]}
    /\ UNCHANGED <<mergeVars, auxVars, chanVars, uiVars, runVars, srvVars, lmPc, fetches, marks, userRead>>

\* the delete call resolves
DeleteOk(d) ==
    /\ d \in dels
    /\ d.id \in srvMon
    /\ srvMon' = srvMon \ {d.id}
    /\ srvLatest' = [srvLatest EXCEPT ![d.id] = 0]
    /\ IF d.current
       THEN /\ runs' = CancelRuns(runs, streamRef)
            /\ chans' = CancelChans(chans, streamRef)
            /\ currentMonitorId' = 0
            /\ activeTaskId' = 0
            /\ tenant' = 0
            /\ changes' = <<>>
       ELSE UNCHANGED <<runs, chans, currentMonitorId, activeTaskId, tenant, changes>>
    /\ lmPc' = loadMonitorsCall(lmPc)
    /\ dels' = dels \ {d}
    /\ UNCHANGED <<mergeVars, auxVars, chanVars, clicks, view, error, isSubmitting, monitors, streamRef, nextRun, fetches, marks,
                   userRead>>

\* the delete call rejects
DeleteFail(d) ==
    /\ d \in dels
    /\ error' = RequestFailed
    /\ dels' = dels \ {d}
    /\ UNCHANGED <<mergeVars, auxVars, chanVars, clicks, view, isSubmitting, tenant, changes, monitors, currentMonitorId,
                   activeTaskId, runVars, srvVars, lmPc, fetches, marks, userRead>>

\* handleMarkChangeRead up to the mark-read call
MarkChangeRead(c) ==
    /\ clicks < MaxClicks
    /\ clicks' = clicks + 1
    /\ view = "results"
    /\ c \in Ids(changes)
    /\ marks' = marks \cup {c}
    /\ UNCHANGED <<mergeVars, auxVars, chanVars, uiVars, runVars, srvVars, lmPc, fetches, dels, userRead>>

\* the mark-read call settles, resolved or rejected: the marker is set locally
MarkSettled(c) ==
    /\ c \in marks
    /\ changes' = [i \in 1..Len(changes) |->
                      IF changes[i].id = c /\ changes[i].readAt = NullRead
                      THEN [changes[i] EXCEPT !.readAt = ReadNow] ELSE changes[i]]
    /\ userRead' = IF c \in Ids(changes) THEN userRead \cup {c} ELSE userRead
    /\ marks' = marks \ {c}
    /\ UNCHANGED <<mergeVars, auxVars, chanVars, clicks, view, error, isSubmitting, tenant, monitors, currentMonitorId,
                   activeTaskId, runVars, srvVars, lmPc, fetches, dels>>

Next ==
    \/ \E u \in Monitors : Submit(u)
    \/ \E r \in Runs : StartOk(r)
    \/ \E r \in Runs : StartFail(r)
    \/ \E r \in Runs : SockOpen(r)
    \/ \E r \in Runs : SockConnectError(r)
    \/ \E r \in Runs : SockMessage(r)
    \/ \E r \in Runs : SockClose(r)
    \/ \E r \in Runs : ArchivesSettle(r)
    \/ \E f \in fetches : FetchOk(f)
    \/ \E f \in fetches : FetchFail(f)
    \/ DashboardClick
    \/ MonitorsLoaded
    \/ MonitorsFailed
    \/ \E m \in Monitors : SwitchMonitor(m)
    \/ RequestMonitorCreate
    \/ BackToForm
    \/ \E m \in Monitors : DeleteMonitor(m)
    \/ \E d \in dels : DeleteOk(d)
    \/ \E d \in dels : DeleteFail(d)
    \/ \E c \in ChangeIds : MarkChangeRead(c)
    \/ \E c \in ChangeIds : MarkSettled(c)

Spec == Init /\ [][Next]_vars

\* ------------------------------------------------------------- SpecSel and SpecBulk
\* ChangesPanel: the selection over the change feed, its paging and its filter,
\* and the bulk mark-read of ImageCombiner that it calls.  The effects that reset
\* the page and the selection run with the handler that changed their inputs.
\* The threat threshold stands for the two filters (the search text is handled
\* by the same effects).

\* changes of the feed shown by the panel in SpecSel
MaxFeed == 9
\* batched requests issued in SpecBulk
MaxBulk == 2

\* useState(8), and the options of the page size selector that matter
DefaultPageSize == 8
PageSizes == {8, 10}
\* positions of the threat threshold slider
ThreatThresholds == {0, 5}
\* the first change of a feed is a minor one
ThreatLevelOf(i) == IF i = 1 THEN 3 ELSE 7

\* the state of ImageCombiner that the panel specifications leave alone
orchQuiet == <<view, isSubmitting, tenant, currentMonitorId, activeTaskId,
               runVars, srvVars, asyncVars, userRead, clicks>>
OrchQuiet ==
    /\ view = "off" /\ isSubmitting = FALSE /\ tenant = 0
    /\ currentMonitorId = 0 /\ activeTaskId = 0
    /\ streamRef = 0 /\ runs = <<>> /\ chans = <<>> /\ nextRun = 0
    /\ srvMon = {} /\ srvLatest = <<>> /\ lmPc = "off" /\ fetches = {} /\ dels = {}
    /\ marks = {} /\ userRead = {} /\ clicks = 0

\* a feed of n unread changes, by id
Feed(n) == [i \in 1..n |-> [id |-> i, readAt |-> NullRead, threatLevel |-> ThreatLevelOf(i)]]

Min(a, b) == IF a < b THEN a ELSE b
Max(a, b) == IF a > b THEN a ELSE b

MatchesThreatThreshold(change, threshold) == change.threatLevel >= threshold
filteredChanges(list, threshold) ==
    SelectSeq(list, LAMBDA change : MatchesThreatThreshold(change, threshold))
\* Math.max(1, Math.ceil(filteredChanges.length / pageSize))
filteredTotalPages(list, threshold, size) ==
    Max(1, (Len(filteredChanges(list, threshold)) + size - 1) \div size)
filteredCurrentPage(list, threshold, page, size) ==
    Min(page, filteredTotalPages(list, threshold, size) - 1)
\* filteredChanges.slice(filteredStartIndex, filteredStartIndex + pageSize)
visibleFilteredChanges(list, threshold, page, size) ==
    LET filtered == filteredChanges(list, threshold)
        filteredStartIndex == filteredCurrentPage(list, threshold, page, size) * size
    IN  SubSeq(filtered, filteredStartIndex + 1,
               Min(filteredStartIndex + size, Len(filtered)))

\* what the panel shows now
Visible == visibleFilteredChanges(changes, threatThreshold, searchPage, pageSize)
isAllSelected == Len(Visible) > 0 /\ Ids(Visible) \subseteq selectedChanges

\* variant: the panel leaves selection mode when the selection becomes empty
selectionModeFollowsSelection(selection) == selection # {}

\* setIsSelectionMode(true) of handleSelectChange and handleSelectAll
selectionModeAfterSelect(selection) == TRUE

\* variant: every change is marked, whatever the ids
markReadAll(previous, changeIds) ==
    [i \in 1..Len(previous) |-> [previous[i] EXCEPT !.readAt = ReadNow]]

\* the update of the changes after the batched call has resolved
markRead(previous, changeIds) ==
    [i \in 1..Len(previous) |->
        IF previous[i].id \in changeIds THEN [previous[i] EXCEPT !.readAt = ReadNow]
        ELSE previous[i]]

bulkRest == <<isBulkMarkPending, bulkIds, bulkSent>>
otherVars == <<pureVars, stageVars, callVars, loadVars, mergeVars, chanVars, orchQuiet,
               monitors>>

InitPanel ==
    /\ selectedChanges = {}
    /\ isSelectionMode = FALSE
    /\ searchPage = 0
    /\ pageSize = DefaultPageSize
    /\ threatThreshold = 0
    /\ isBulkMarkPending = FALSE
    /\ bulkIds = {}
    /\ bulkSent = 0
    /\ selOp = "mount"
    /\ error = "none"
    /\ monitors = <<>>
    /\ OrchQuiet
    /\ PureIdle
    /\ StageIdle
    /\ CallIdle
    /\ LoadIdle
    /\ MergeIdle
    /\ ChanIdle

InitSel ==
    /\ changes = Feed(MaxFeed)
    /\ InitPanel

\* the feeds of SpecBulk: MaxLen changes with any read markers
InitBulk ==
    /\ changes \in {[i \in 1..MaxLen |-> [Feed(MaxLen)[i] EXCEPT !.readAt = r[i]]] :
                      r \in [1..MaxLen -> Times]}
    /\ InitPanel

\* the check box of a visible card (the cards have one in selection mode)
handleSelectChange(changeId, isSelected) ==
    /\ isSelectionMode
    /\ changeId \in Ids(Visible)
    /\ LET newSet == IF isSelected THEN selectedChanges \cup {changeId}
                     ELSE selectedChanges \ {changeId}
       IN  /\ selectedChanges' = newSet
           /\ isSelectionMode' = selectionModeAfterSelect(newSet)
    /\ selOp' = IF isSelected THEN "select" ELSE "deselect"
    /\ UNCHANGED <<searchPage, pageSize, threatThreshold, bulkRest, changes, error, otherVars>>

\* the select-all check box, shown in selection mode over a non-empty feed
handleSelectAll(isSelected) ==
    /\ isSelectionMode
    /\ Len(filteredChanges(changes, threatThreshold)) > 0
    /\ selectedChanges' = IF isSelected THEN Ids(Visible) ELSE {}
    /\ isSelectionMode' = selectionModeAfterSelect(selectedChanges')
    /\ selOp' = IF isSelected THEN "selectAll" ELSE "deselectAll"
    /\ UNCHANGED <<searchPage, pageSize, threatThreshold, bulkRest, changes, error, otherVars>>

\* the button "Select items"
EnterSelectionMode ==
    /\ ~isSelectionMode
    /\ ~isBulkMarkPending
    /\ Len(filteredChanges(changes, threatThreshold)) > 0
    /\ isSelectionMode' = TRUE
    /\ selOp' = "enter"
    /\ UNCHANGED <<selectedChanges, searchPage, pageSize, threatThreshold, bulkRest,
                   changes, error, otherVars>>

\* the button "Clear" or "Cancel"
handleExitSelectionMode ==
    /\ isSelectionMode
    /\ selectedChanges' = {}
    /\ isSelectionMode' = FALSE
    /\ selOp' = "exit"
    /\ UNCHANGED <<searchPage, pageSize, threatThreshold, bulkRest, changes, error, otherVars>>

\* onNext and onPrevious of the pagination, shown when there are several pages
NextPage ==
    /\ filteredTotalPages(changes, threatThreshold, pageSize) > 1
    /\ searchPage' = Min(filteredTotalPages(changes, threatThreshold, pageSize) - 1,
                         searchPage + 1)
    /\ searchPage' # searchPage
    /\ selOp' = "page"
    /\ UNCHANGED <<selectedChanges, isSelectionMode, pageSize, threatThreshold, bulkRest,
                   changes, error, otherVars>>

PreviousPage ==
    /\ filteredTotalPages(changes, threatThreshold, pageSize) > 1
    /\ searchPage' = Max(0, searchPage - 1)
    /\ searchPage' # searchPage
    /\ selOp' = "page"
    /\ UNCHANGED <<selectedChanges, isSelectionMode, pageSize, threatThreshold, bulkRest,
                   changes, error, otherVars>>

\* the page size selector, with the effect on [pageSize]
SetPageSize(size) ==
    /\ size # pageSize
    /\ pageSize' = size
    /\ searchPage' = 0
    /\ selOp' = "pageSize"
    /\ UNCHANGED <<selectedChanges, isSelectionMode, threatThreshold, bulkRest, changes,
                   error, otherVars>>

\* the threat threshold slider, with the effects on [searchQuery, threatThreshold]
SetThreatThreshold(threshold) ==
    /\ threshold # threatThreshold
    /\ threatThreshold' = threshold
    /\ searchPage' = 0
    /\ selectedChanges' = {}
    /\ isSelectionMode' = FALSE
    /\ selOp' = "filter"
    /\ UNCHANGED <<pageSize, bulkRest, changes, error, otherVars>>

\* the panel is rendered with a new changes list (a stage snapshot was applied)
RefreshFeed(n) ==
    /\ changes # Feed(n)
    /\ changes' = Feed(n)
    /\ selOp' = "refresh"
    /\ UNCHANGED <<selectedChanges, isSelectionMode, searchPage, pageSize, threatThreshold,
                   bulkRest, error, otherVars>>

\* handleBulkMarkRead and handleBulkMarkChangesRead up to the batched call
BulkMarkRead ==
    /\ isSelectionMode
    /\ selectedChanges # {}
    /\ ~isBulkMarkPending
    /\ bulkSent < MaxBulk
    /\ isBulkMarkPending' = TRUE
    /\ bulkIds' = selectedChanges
    /\ bulkSent' = bulkSent + 1
    /\ selOp' = "bulk"
    /\ UNCHANGED <<selectedChanges, isSelectionMode, searchPage, pageSize, threatThreshold,
                   changes, error, otherVars>>

\* the batched call resolves: the markers are set, then the panel clears the selection
BulkOk ==
    /\ isBulkMarkPending
    /\ changes' = markRead(changes, bulkIds)
    /\ isBulkMarkPending' = FALSE
    /\ selectedChanges' = {}
    /\ isSelectionMode' = FALSE
    /\ selOp' = "bulkOk"
    /\ UNCHANGED <<searchPage, pageSize, threatThreshold, bulkIds, bulkSent, error, otherVars>>

\* the batched call rejects: the catch block, then the panel clears the selection
BulkFail ==
    /\ isBulkMarkPending
    /\ error' = RequestFailed
    /\ isBulkMarkPending' = FALSE
    /\ selectedChanges' = {}
    /\ isSelectionMode' = FALSE
    /\ selOp' = "bulkFail"
    /\ UNCHANGED <<searchPage, pageSize, threatThreshold, bulkIds, bulkSent, changes, otherVars>>

NextSel ==
    \/ \E id \in 1..MaxFeed, isSelected \in BOOLEAN : handleSelectChange(id, isSelected)
    \/ handleSelectAll(~isAllSelected)
    \/ EnterSelectionMode
    \/ handleExitSelectionMode
    \/ NextPage
    \/ PreviousPage
    \/ \E size \in PageSizes : SetPageSize(size)
    \/ \E threshold \in ThreatThresholds : SetThreatThreshold(threshold)
    \/ \E n \in {MaxFeed - 1, MaxFeed} : RefreshFeed(n)

SpecSel == InitSel /\ [][NextSel]_vars

NextBulk ==
    \/ \E id \in 1..MaxLen, isSelected \in BOOLEAN : handleSelectChange(id, isSelected)
    \/ handleSelectAll(~isAllSelected)
    \/ EnterSelectionMode
    \/ handleExitSelectionMode
    \/ BulkMarkRead
    \/ BulkOk
    \/ BulkFail

SpecBulk == InitBulk /\ [][NextBulk]_vars

\* ------------------------------------------------------------- SpecCalls
\* The handlers of ImageCombiner and ResultsView that make one backend call and
\* act on its outcome: loadMonitors (list), handleMonitorFormSubmit (create),
\* handleUpdateMonitorName (rename), handleDeleteMonitor (delete),
\* handleAddCompetitor (track), handleRemoveCompetitor (untrack), loadArchives
\* (archives) and handleCreateArchive (archive).  A rejected call carries an Error
\* (thrown by handleResponse or by fetch) with the detail the backend sent.

CallKinds == {"list", "create", "rename", "delete", "track", "untrack", "archives",
              "archive"}
MonitorNames == {"a", "b"}
ErrorMessages == {"Unauthorized", "403 Forbidden", "Authentication required",
                  RequestFailed}

\* message.toLowerCase()
toLowerCase(message) ==
    CASE message = "Unauthorized" -> "unauthorized"
      [] message = "403 Forbidden" -> "403 forbidden"
      [] message = "Authentication required" -> "authentication required"
      [] message = RequestFailed -> "request failed"

\* text.includes(word), for the texts and the words that occur
includes(text, word) ==
    <<text, word>> \in {<<"unauthorized", "unauthorized">>,
                        <<"403 forbidden", "forbidden">>,
                        <<"authentication required", "authentication">>}

isAuthError(message) ==
    LET lowered == toLowerCase(message)
    IN  \/ includes(lowered, "unauthorized")
        \/ includes(lowered, "authentication")
        \/ includes(lowered, "forbidden")

\* the handlers whose catch block asks isAuthError
DowngradesAccess(kind) == kind \in {"list", "create", "rename", "delete"}
\* the handlers whose catch block calls setError
SurfacesError(kind) == kind # "archives"

NameOf(list, id) == list[CHOOSE i \in 1..Len(list) : list[i].id = id].name

\* the answer of a call that is not read
NoAnswer == <<[id |-> 1, name |-> "a"], [id |-> 2, name |-> "a"]>>

\* variant: the answer of the rename replaces every record
renameAppliedToAll(previous, monitorId, mapped) ==
    [i \in 1..Len(previous) |-> mapped]

\* previous.map((monitor) => (monitor.id === monitorId ? mapped : monitor))
renameApplied(previous, monitorId, mapped) ==
    [i \in 1..Len(previous) |-> IF previous[i].id = monitorId THEN mapped ELSE previous[i]]

\* [mapped, ...previous.filter((monitor) => monitor.id !== mapped.id)]
createApplied(previous, mapped) ==
    <<mapped>> \o SelectSeq(previous, LAMBDA monitor : monitor.id # mapped.id)

\* the state of ImageCombiner that SpecCalls leaves alone
callRest == <<pureVars, stageVars, selVars, loadVars, mergeVars, chanVars, orchQuiet,
              changes>>

InitCalls ==
    /\ monitors = <<[id |-> 1, name |-> "a"], [id |-> 2, name |-> "a"]>>
    /\ error = "none"
    /\ hasMonitorAccess = FALSE
    /\ pendingCall = <<>>
    /\ lastCall = <<>>
    /\ changes = <<>>
    /\ OrchQuiet
    /\ PureIdle
    /\ StageIdle
    /\ SelIdle
    /\ LoadIdle
    /\ MergeIdle
    /\ ChanIdle

\* a handler runs up to its await: none of them touches the monitors, the error
\* or the access flag before the call has settled
Invoke(kind, id, name) ==
    /\ pendingCall = <<>>
    /\ kind \in {"rename", "delete"} => id \in MonitorIds(monitors)
    /\ kind \notin {"rename", "create", "delete"} => id = 1
    /\ kind \notin {"rename", "create"} => name = "a"
    /\ pendingCall' = [kind |-> kind, id |-> id, name |-> name, before |-> monitors,
                       access |-> hasMonitorAccess]
    /\ UNCHANGED <<monitors, error, hasMonitorAccess, lastCall, callRest>>

\* the call resolves with the record or the list `answer` of the backend
CallOk(answer) ==
    /\ pendingCall # <<>>
    /\ pendingCall.kind \notin {"list", "rename", "create"} => answer = NoAnswer
    /\ LET kind == pendingCall.kind
       IN  /\ monitors' =
                 CASE kind = "list" -> answer
                   [] kind = "rename" /\ pendingCall.id \in MonitorIds(monitors) ->
                         renameApplied(monitors, pendingCall.id,
                                       [id |-> pendingCall.id, name |-> answer[1].name])
                   [] kind = "create" ->
                         createApplied(monitors, [id |-> pendingCall.id,
                                                  name |-> answer[1].name])
                   [] OTHER -> monitors
           /\ hasMonitorAccess' = IF kind \in {"list", "create", "rename"} THEN TRUE
                                  ELSE hasMonitorAccess
    /\ lastCall' = [call |-> pendingCall, ok |-> TRUE, message |-> "none",
                    answer |-> answer]
    /\ pendingCall' = <<>>
    /\ UNCHANGED <<error, callRest>>

\* the call rejects with an Error of the given message: the catch block
CallFail(message) ==
    /\ pendingCall # <<>>
    /\ hasMonitorAccess' = IF DowngradesAccess(pendingCall.kind) /\ isAuthError(message)
                           THEN FALSE ELSE hasMonitorAccess
    /\ error' = IF SurfacesError(pendingCall.kind) THEN message ELSE error
    /\ lastCall' = [call |-> pendingCall, ok |-> FALSE, message |-> message,
                    answer |-> <<>>]
    /\ pendingCall' = <<>>
    /\ UNCHANGED <<monitors, callRest>>

\* the answers of the backend: the list of the two monitors under any names (a
\* rename and a create are answered with one record, the first of the list)
ServerLists == {[i \in 1..2 |-> [id |-> i, name |-> names[i]]] : names \in [1..2 -> MonitorNames]}

NextCalls ==
    \/ \E kind \in CallKinds, id \in 1..2, name \in MonitorNames : Invoke(kind, id, name)
    \/ \E answer \in ServerLists : CallOk(answer)
    \/ \E message \in ErrorMessages : CallFail(message)

SpecCalls == InitCalls /\ [][NextCalls]_vars

\* ------------------------------------------------------------- SpecLoad
\* loadMonitors and its five call sites (handlePrimaryCtaClick, the mount
\* effect, the authentication effect, handleDeleteMonitor, handleSubmit after a
\* complete event).  A request is the async function that fetches the list and
\* may then await loadMonitorResults; it is in phase "list" or "results".

\* list fetches issued
MaxLoads == 3

Callers == {"cta", "mount", "auth", "delete", "submit"}

\* variant: a call never finds a request in flight
joinsNever(ref) == FALSE

\* `if (loadMonitorsPromiseRef.current) return loadMonitorsPromiseRef.current`
joinsInFlight(ref) == ref # 0

\* the state that SpecLoad leaves alone
loadRest == <<pureVars, stageVars, selVars, callVars, mergeVars, chanVars, orchVars>>

InitLoad ==
    /\ loadMonitorsPromiseRef = 0
    /\ inFlight = {}
    /\ waiting = [c \in Callers |-> 0]
    /\ issued = 0
    /\ OrchIdle
    /\ PureIdle
    /\ StageIdle
    /\ SelIdle
    /\ CallIdle
    /\ MergeIdle
    /\ ChanIdle

\* a caller calls loadMonitors() and awaits what it returns
LoadMonitors(c) ==
    /\ waiting[c] = 0
    /\ IF joinsInFlight(loadMonitorsPromiseRef)
       THEN /\ waiting' = [waiting EXCEPT ![c] = loadMonitorsPromiseRef]
            /\ UNCHANGED <<loadMonitorsPromiseRef, inFlight, issued>>
       ELSE /\ issued < MaxLoads
            /\ issued' = issued + 1
            /\ inFlight' = inFlight \cup {[id |-> issued + 1, phase |-> "list"]}
            /\ loadMonitorsPromiseRef' = issued + 1
            /\ waiting' = [waiting EXCEPT ![c] = issued + 1]
    /\ UNCHANGED loadRest

\* fetchMonitors resolves and the request goes on to await loadMonitorResults
ListThenResults(q) ==
    /\ q \in inFlight
    /\ q.phase = "list"
    /\ inFlight' = (inFlight \ {q}) \cup {[q EXCEPT !.phase = "results"]}
    /\ UNCHANGED <<loadMonitorsPromiseRef, waiting, issued, loadRest>>

\* the request settles (the list fetch rejected, or resolved with nothing to
\* reload, or loadMonitorResults settled): the finally block of the call that
\* made it clears the ref, and the callers awaiting it go on
RequestSettles(q) ==
    /\ q \in inFlight
    /\ inFlight' = inFlight \ {q}
    /\ loadMonitorsPromiseRef' = 0
    /\ waiting' = [c \in Callers |-> IF waiting[c] = q.id THEN 0 ELSE waiting[c]]
    /\ UNCHANGED <<issued, loadRest>>

NextLoad ==
    \/ \E c \in Callers : LoadMonitors(c)
    \/ \E q \in inFlight : ListThenResults(q)
    \/ \E q \in inFlight : RequestSettles(q)

SpecLoad == InitLoad /\ [][NextLoad]_vars

\* ------------------------------------------------------------- SpecAdapt
\* adaptCompetitorStage and adaptChangeStage of utils/api.ts on decoded payloads
\* of every shape.  A decoded value is [t, s, pad, fin, v]: t is its typeof
\* ("undefined", "null", "string", "number", "boolean", "object"), s the text of a
\* string as a sequence of tokens without the surrounding white space, pad tells
\* that white space surrounds it, fin and v are a number's finiteness and its
\* value in tenths.

\* longest list of a payload (one more than the cap of the peer list)
MaxItems == 11
\* adapter runs on one payload
MaxAdaptRuns == 2

\* .slice(0, 10)
CompetitorCap == 10
\* the defaults 0.5 and 5 and the range 0..1 of clamp, in tenths
DefaultConfidence == 5
DefaultThreatLevel == 50
ClampHigh == 10

Val(t, s, pad, fin, v) == [t |-> t, s |-> s, pad |-> pad, fin |-> fin, v |-> v]
Undefined == Val("undefined", <<>>, FALSE, FALSE, 0)
Null == Val("null", <<>>, FALSE, FALSE, 0)
Str(s) == Val("string", s, FALSE, FALSE, 0)
Padded(s) == Val("string", s, TRUE, FALSE, 0)
Num(n) == Val("number", <<>>, FALSE, TRUE, n)
NaN == Val("number", <<>>, FALSE, FALSE, 0)
Bool == Val("boolean", <<>>, FALSE, FALSE, 0)

\* the numbers of a payload, in tenths
NumTenths == {-5, 0, 7, 10, 150}

\* parseFloat: the number a text begins with, else NaN
parseFloat(s) ==
    IF s # <<>> /\ \E n \in NumTenths : ToString(n) = Head(s)
    THEN Num(CHOOSE n \in NumTenths : ToString(n) = Head(s))
    ELSE NaN

\* String(value) of a value that is not a number
String(value) ==
    IF value.t = "string" THEN value.s ELSE <<value.t>>

\* a ?? b
Nullish(value) == value.t \in {"undefined", "null"}
OrElse(a, b) == IF Nullish(a) THEN b ELSE a

\* variant: clamp returns the value
clampNone(value, min, max) == value

clamp(value, min, max) == Min(Max(value, min), max)

coalesceString(value, fallback) ==
    IF value.t = "string" /\ value.s # <<>> THEN value.s ELSE fallback

RECURSIVE StripLeadingSlashes(_)
StripLeadingSlashes(s) ==
    IF s # <<>> /\ Head(s) = "/" THEN StripLeadingSlashes(Tail(s)) ELSE s

coalesceUrl(value) ==
    LET raw == coalesceString(value, <<"https://", "example.com">>)
    IN  IF Head(raw) \in {"http://", "https://"} THEN raw
        ELSE <<"https://">> \o StripLeadingSlashes(raw)

\* typeof x === 'number' ? x : parseFloat(String(x ?? fallback))
toNumber(value, fallback) ==
    IF value.t = "number" THEN value
    ELSE IF Nullish(value) THEN Num(fallback)
    ELSE parseFloat(String(value))

\* the callback of .map in adaptCompetitorStage; index counts from 0
adaptCompetitor(competitor, index) ==
    LET displayName == coalesceString(OrElse(competitor.display_name, competitor.name),
                                      <<"Competitor ", ToString(index + 1)>>)
        primaryUrl == coalesceUrl(OrElse(competitor.primary_url, competitor.url))
        confidenceValue == toNumber(competitor.confidence, DefaultConfidence)
        first == OrElse(competitor.id, OrElse(competitor.competitor_id, competitor.domain))
    IN  [id |-> coalesceString(IF Nullish(first) THEN Str(primaryUrl) ELSE first,
                               displayName \o <<"-", ToString(index)>>),
         competitorId |-> IF competitor.competitor_id.t = "string" THEN competitor.competitor_id
                          ELSE IF competitor.id.t = "string" THEN competitor.id
                          ELSE Null,
         displayName |-> displayName,
         primaryUrl |-> primaryUrl,
         confidence |-> IF confidenceValue.fin
                        THEN clamp(confidenceValue.v, 0, ClampHigh)
                        ELSE DefaultConfidence]

\* .filter((item) => Boolean(item) && typeof item === 'object')
IsObject(item) == item.t = "object"

\* variant: the whole list is kept
sliceAll(list, n) == list

\* .slice(0, n)
slice(list, n) == SubSeq(list, 1, Min(Len(list), n))

\* data is [t, competitors, changes]; a list that is not an array is <<>> with
\* isArray false
adaptCompetitorList(data) ==
    LET rawCompetitors == IF data.isArray THEN data.competitors ELSE <<>>
        kept == slice(SelectSeq(rawCompetitors, IsObject), CompetitorCap)
    IN  IF data.t # "object" THEN <<>>
        ELSE [i \in 1..Len(kept) |-> adaptCompetitor(kept[i], i - 1)]

\* variant: the fallback id of a change is made of the time of the run
adaptChangeTimedId(entry, index, now) ==
    LET threatLevel == toNumber(entry.threat_level, DefaultThreatLevel)
    IN  [id |-> coalesceString(entry.id, <<"change-", ToString(now)>>),
         timestamp |-> coalesceString(entry.timestamp, <<"now", ToString(now)>>),
         threatLevel |-> IF threatLevel.fin THEN threatLevel.v ELSE DefaultThreatLevel]

\* the callback of .map in adaptChangeStage; now is new Date().toISOString()
adaptChange(entry, index, now) ==
    LET threatLevel == toNumber(entry.threat_level, DefaultThreatLevel)
    IN  [id |-> coalesceString(entry.id, <<"change-", ToString(index)>>),
         timestamp |-> coalesceString(entry.timestamp, <<"now", ToString(now)>>),
         threatLevel |-> IF threatLevel.fin THEN threatLevel.v ELSE DefaultThreatLevel]

adaptChangeList(data, now) ==
    LET list == IF data.isArray THEN data.changes ELSE <<>>
        kept == SelectSeq(list, IsObject)
    IN  IF data.t # "object" THEN <<>>
        ELSE [i \in 1..Len(kept) |-> adaptChange(kept[i], i - 1, now)]

\* the values a text field of a payload entry may hold
IdVals == {Undefined, Str(<<"p1">>), Padded(<<"p1">>), Str(<<>>), Num(7)}
SecondaryVals == {Undefined, Str(<<"k1">>)}
DomainVals == {Undefined, Str(<<"a.com">>)}
UrlVals == {Undefined, Str(<<"https://", "a.com">>), Str(<<"/", "a.com">>)}
NameVals == {Undefined, Str(<<"Acme">>)}
\* the values a numeric field may hold: numbers, NaN, nothing, numeric texts, a
\* text that begins with a number, a text that does not, a boolean
NumericVals ==
    {Num(n) : n \in NumTenths} \cup {Str(<<ToString(n)>>) : n \in NumTenths}
    \cup {NaN, Undefined, Null, Str(<<"7", "abc">>), Str(<<"abc">>), Bool}

CompetitorEntry(id, secondary, domain, url, name, confidence) ==
    [t |-> "object", id |-> id, competitor_id |-> secondary, domain |-> domain,
     primary_url |-> url, url |-> Undefined, display_name |-> name, name |-> Undefined,
     confidence |-> confidence]
\* entries without a confidence, and entries of every confidence
PlainCompetitors ==
    {CompetitorEntry(i, k, d, u, n, Undefined) :
        i \in IdVals, k \in SecondaryVals, d \in DomainVals, u \in UrlVals, n \in NameVals}
ScoredCompetitors ==
    {CompetitorEntry(i, Undefined, Undefined, u, Undefined, c) :
        i \in {Undefined, Str(<<"p1">>)}, u \in {Undefined, Str(<<"/", "a.com">>)},
        c \in NumericVals}

\* an entry of a list that is not an object
NoObject == [t |-> "null"]

\* a list payload of n entries, those at the places of holes not objects
Filler(i) ==
    CompetitorEntry(Str(<<"p", ToString(i)>>), Undefined, Undefined, Undefined,
                    Undefined, Undefined)
LongList(n, holes) == [i \in 1..n |-> IF i \in holes THEN NoObject ELSE Filler(i)]

ChangeEntry(id, timestamp, threat) ==
    [t |-> "object", id |-> id, timestamp |-> timestamp, threat_level |-> threat]
ChangeIdVals == {Undefined, Str(<<"c1">>), Str(<<>>), Num(7)}
PlainChanges == {ChangeEntry(i, s, Undefined) : i \in ChangeIdVals, s \in {Undefined, Str(<<"t1">>)}}
RatedChanges == {ChangeEntry(i, Undefined, v) : i \in {Undefined, Str(<<"c1">>)}, v \in NumericVals}

Data(t, isArray, peers, entries) ==
    [t |-> t, isArray |-> isArray, competitors |-> peers, changes |-> entries]

CompetitorPayloads ==
    {Data("object", TRUE, <<a>>, <<>>) : a \in ScoredCompetitors}
    \cup {Data("object", TRUE, <<a, b>>, <<>>) :
             a \in PlainCompetitors,
             b \in {c \in PlainCompetitors : c.domain = Undefined /\ c.display_name = Undefined}}
    \cup {Data("object", TRUE, LongList(n, holes), <<>>) :
             n \in 0..MaxItems, holes \in SUBSET {2, MaxItems}}
    \cup {Data("object", FALSE, <<>>, <<>>), Data("string", FALSE, <<>>, <<>>)}

ChangePayloads ==
    {Data("object", TRUE, <<>>, <<a>>) : a \in RatedChanges \cup {NoObject}}
    \cup {Data("object", TRUE, <<>>, <<a, b>>) : a, b \in PlainChanges \cup {NoObject}}
    \cup {Data("object", FALSE, <<>>, <<>>), Data("string", FALSE, <<>>, <<>>)}

InitAdapt ==
    /\ \/ fnIn \in {[stage |-> "competitors", data |-> d] : d \in CompetitorPayloads}
       \/ fnIn \in {[stage |-> "changes", data |-> d] : d \in ChangePayloads}
    /\ fnOut = <<>>
    /\ fnPc = "input"
    /\ StageIdle
    /\ SideIdle
    /\ MergeIdle
    /\ ChanIdle
    /\ OrchIdle

\* const snapshot = adaptCompetitorStage(event.data); fnOut holds the results of
\* the runs on the payload, each with the time of the run
AdaptCompetitors(now) ==
    /\ fnIn.stage = "competitors"
    /\ Len(fnOut) < MaxAdaptRuns
    /\ fnOut' = Append(fnOut, [now |-> now, list |-> adaptCompetitorList(fnIn.data)])
    /\ fnPc' = "adapted"
    /\ UNCHANGED <<fnIn, stageVars, sideVars, mergeVars, chanVars, orchVars>>

\* adaptChangeStage(event.data)
AdaptChanges(now) ==
    /\ fnIn.stage = "changes"
    /\ Len(fnOut) < MaxAdaptRuns
    /\ fnOut' = Append(fnOut, [now |-> now, list |-> adaptChangeList(fnIn.data, now)])
    /\ fnPc' = "adapted"
    /\ UNCHANGED <<fnIn, stageVars, sideVars, mergeVars, chanVars, orchVars>>

NextAdapt ==
    \/ \E now \in Times : AdaptCompetitors(now)
    \/ \E now \in Times : AdaptChanges(now)

SpecAdapt == InitAdapt /\ [][NextAdapt]_vars

\* ------------------------------------------------------------- SpecMark
\* handleMarkChangeRead on the feeds of SpecBulk.  pendingCall is the mark-read
\* call in flight, lastCall (history) the last one settled: its id, its outcome
\* and the marker the change had when the call settled.

\* variant: the marker is set whether or not the change has one
markOneOverwrites(previous, changeId) ==
    [i \in 1..Len(previous) |->
        IF previous[i].id = changeId THEN [previous[i] EXCEPT !.readAt = ReadNow]
        ELSE previous[i]]

\* change.id === changeId && !change.readAt ? {...change, readAt: now} : change
markOne(previous, changeId) ==
    [i \in 1..Len(previous) |->
        IF previous[i].id = changeId /\ previous[i].readAt = NullRead
        THEN [previous[i] EXCEPT !.readAt = ReadNow]
        ELSE previous[i]]

markRest == <<selVars, hasMonitorAccess, pureVars, stageVars, loadVars, mergeVars,
              chanVars, orchQuiet, monitors>>

\* the marker of change changeId in list (NullRead when it is not there)
MarkerOf(list, changeId) ==
    IF changeId \in Ids(list)
    THEN list[CHOOSE i \in 1..Len(list) : list[i].id = changeId].readAt
    ELSE NullRead

\* handleMarkChangeRead up to await apiMarkChangeRead(changeId)
MarkRead(changeId) ==
    /\ pendingCall = <<>>
    /\ changeId \in Ids(changes)
    /\ pendingCall' = [kind |-> "markRead", id |-> changeId]
    /\ UNCHANGED <<changes, error, lastCall, markRest>>

\* the call resolves
MarkOk ==
    /\ pendingCall # <<>>
    /\ changes' = markOne(changes, pendingCall.id)
    /\ lastCall' = [id |-> pendingCall.id, ok |-> TRUE,
                    was |-> MarkerOf(changes, pendingCall.id)]
    /\ pendingCall' = <<>>
    /\ UNCHANGED <<error, markRest>>

\* the call rejects: the catch block logs, then the same update
MarkFail ==
    /\ pendingCall # <<>>
    /\ changes' = markOne(changes, pendingCall.id)
    /\ lastCall' = [id |-> pendingCall.id, ok |-> FALSE,
                    was |-> MarkerOf(changes, pendingCall.id)]
    /\ pendingCall' = <<>>
    /\ UNCHANGED <<error, markRest>>

\* a changes stage of a re-fetch arrives while the call is in flight
MarkRefetch(n) ==
    /\ pendingCall # <<>>
    /\ changes' = mergeChangeReadState(changes, Feed(n))
    /\ changes' # changes
    /\ UNCHANGED <<error, pendingCall, lastCall, markRest>>

NextMark ==
    \/ \E c \in 1..MaxLen : MarkRead(c)
    \/ MarkOk
    \/ MarkFail
    \/ \E n \in {MaxLen - 1, MaxLen} : MarkRefetch(n)

SpecMark == InitBulk /\ [][NextMark]_vars

\* ------------------------------------------------------------- SpecKnown
\* The updates of the known-monitors list, each at the point where its handler
\* calls setMonitors: loadMonitors (also at the end of handleDeleteMonitor),
\* handleSubmit after startAnalysis has answered with a monitor id,
\* handleMonitorFormSubmit and handleUpdateMonitorName.  A monitor is
\* [id, name]; lastCall (history) is the last update, its monitor id and whether
\* that id was in the list before.

\* monitor ids the backend hands out
MaxKnown == 3

\* variant: the optimistic monitor is always put in front of the list
submitPrepends(previous, optimisticMonitor) == <<optimisticMonitor>> \o previous

\* the updater of setMonitors in handleSubmit
submitApplied(previous, optimisticMonitor) ==
    IF optimisticMonitor.id \notin MonitorIds(previous)
    THEN <<optimisticMonitor>> \o previous
    ELSE LET existing == previous[CHOOSE i \in 1..Len(previous) :
                                     /\ previous[i].id = optimisticMonitor.id
                                     /\ \A j \in 1..(i - 1) :
                                           previous[j].id # optimisticMonitor.id]
             others == SelectSeq(previous, LAMBDA monitor : monitor.id # optimisticMonitor.id)
         IN  <<[existing EXCEPT !.name = optimisticMonitor.name]>> \o others

\* the lists the backend answers with: pairwise distinct ids
KnownLists ==
    {q \in SeqsUpTo([id : 1..MaxKnown, name : MonitorNames], MaxKnown) :
        \A i, j \in 1..Len(q) : q[i].id = q[j].id => i = j}

knownRest == <<error, hasMonitorAccess, pendingCall, pureVars, stageVars, selVars, loadVars,
               mergeVars, chanVars, orchQuiet, changes>>

\* setMonitors(mapped) of loadMonitors
KnownListed(list) ==
    /\ monitors' = list
    /\ lastCall' = [kind |-> "list", id |-> 0, known |-> FALSE]
    /\ UNCHANGED knownRest

KnownSubmitted(monitorId, name) ==
    /\ monitors' = submitApplied(monitors, [id |-> monitorId, name |-> name])
    /\ lastCall' = [kind |-> "submit", id |-> monitorId,
                    known |-> monitorId \in MonitorIds(monitors)]
    /\ UNCHANGED knownRest

KnownCreated(monitorId, name) ==
    /\ monitors' = createApplied(monitors, [id |-> monitorId, name |-> name])
    /\ lastCall' = [kind |-> "create", id |-> monitorId,
                    known |-> monitorId \in MonitorIds(monitors)]
    /\ UNCHANGED knownRest

\* the answer of a rename is the record of the monitor renamed
KnownRenamed(monitorId, name) ==
    /\ monitors' = renameApplied(monitors, monitorId, [id |-> monitorId, name |-> name])
    /\ lastCall' = [kind |-> "rename", id |-> monitorId,
                    known |-> monitorId \in MonitorIds(monitors)]
    /\ UNCHANGED knownRest

NextKnown ==
    \/ \E list \in KnownLists : KnownListed(list)
    \/ \E monitorId \in 1..MaxKnown, name \in MonitorNames : KnownSubmitted(monitorId, name)
    \/ \E monitorId \in 1..MaxKnown, name \in MonitorNames : KnownCreated(monitorId, name)
    \/ \E monitorId \in 1..MaxKnown, name \in MonitorNames : KnownRenamed(monitorId, name)

SpecKnown == InitCalls /\ [][NextKnown]_vars

\* ------------------------------------------------------------- SpecReplay
\* The two ways a working snapshot is filled from the events of a task: the loop
\* of handleSubmit, event by event, and loadMonitorResults, from the list that
\* fetchAnalysisProgress returns.  An event is [type, stage, snapshot]: both ways
\* pass event.data through the same adapter, and snapshot is its result (a
\* profile for a tenant stage, a snapshot of SpecStage for the other two).
\* fnIn is the event list, fnOut is [live, at, replay, loaded]: the snapshot of
\* the loop after `at` events, and the snapshot of the one-shot load.

\* longest event list
MaxEvents == 3

EmptySnapshot ==
    [tenant |-> 0, competitorCards |-> <<>>, trackedCompetitorIds |-> <<>>, changes |-> <<>>]

StageEvent(stage, snapshot) == [type |-> "stage", stage |-> stage, snapshot |-> snapshot]

ReplayEvents ==
    {StageEvent("tenant", profile) : profile \in 1..2}
    \cup {StageEvent("competitors", s) :
             s \in {c \in CompetitorSnaps : Len(c.competitors) <= 1 /\ c.trackedCompetitorIds = <<>>}}
    \cup {StageEvent("changes", s) : s \in ChangeSnaps}

\* the stage branches of the loop of handleSubmit
liveStage(acc, event) ==
    CASE event.stage = "tenant" -> [acc EXCEPT !.tenant = event.snapshot]
      [] event.stage = "competitors" ->
            LET cards == StageCards(acc.competitorCards, event.snapshot)
            IN  [acc EXCEPT !.competitorCards = cards,
                            !.trackedCompetitorIds = TrackedFromStage(event.snapshot, cards)]
      [] event.stage = "changes" ->
            [acc EXCEPT !.changes = mergeChangeReadState(acc.changes, event.snapshot.changes)]
      [] OTHER -> acc

\* loadMonitorResults(taskId) after fetchAnalysisProgress has resolved with events
rehydrate(acc, events) ==
    LET competitorsEvent == FindStage(events, "competitors")
        cards == StageCards(acc.competitorCards, competitorsEvent.snapshot)
    IN  [tenant |-> IF HasStage(events, "tenant")
                    THEN FindStage(events, "tenant").snapshot ELSE 0,
         competitorCards |-> IF HasStage(events, "competitors") THEN cards ELSE <<>>,
         trackedCompetitorIds |->
             IF HasStage(events, "competitors")
             THEN TrackedFromStage(competitorsEvent.snapshot, cards) ELSE <<>>,
         changes |-> IF HasStage(events, "changes")
                     THEN mergeChangeReadState(acc.changes,
                                               FindStage(events, "changes").snapshot.changes)
                     ELSE <<>>]

InitReplay ==
    /\ fnIn \in SeqsUpTo(ReplayEvents, MaxEvents)
    /\ fnOut = [live |-> EmptySnapshot, at |-> 0, replay |-> EmptySnapshot, loaded |-> FALSE]
    /\ fnPc = "input"
    /\ StageIdle
    /\ SideIdle
    /\ MergeIdle
    /\ ChanIdle
    /\ OrchIdle

\* the loop takes the next event
LiveNext ==
    /\ fnOut.at < Len(fnIn)
    /\ fnOut' = [fnOut EXCEPT !.live = liveStage(fnOut.live, fnIn[fnOut.at + 1]),
                              !.at = fnOut.at + 1]
    /\ UNCHANGED <<fnIn, fnPc, stageVars, sideVars, mergeVars, chanVars, orchVars>>

\* the one-shot load of the same events into an empty snapshot
Rehydrate ==
    /\ ~fnOut.loaded
    /\ fnOut' = [fnOut EXCEPT !.replay = rehydrate(EmptySnapshot, fnIn), !.loaded = TRUE]
    /\ UNCHANGED <<fnIn, fnPc, stageVars, sideVars, mergeVars, chanVars, orchVars>>

NextReplay ==
    \/ LiveNext
    \/ Rehydrate

SpecReplay == InitReplay /\ [][NextReplay]_vars

\* ------------------------------------------------------------- claims

\* C1: read-state monotonicity under merge.  A change id that the local snapshot
\* holds with a non-null read marker has a non-null read marker in the merged
\* list whenever the incoming snapshot contains it, whatever marker (null
\* included) the incoming record carries.
C1_ReadMonotoneUnderMerge ==
    mPc = "merged" =>
        \A i \in 1..Len(mPrev) : \A j \in 1..Len(mOut) :
            (mPrev[i].readAt # NullRead /\ mOut[j].id = mPrev[i].id)
                => mOut[j].readAt # NullRead

\* a merge has run on a locally read change that the incoming snapshot lists unread
C1_Witness ==
    /\ mPc = "merged"
    /\ \E i \in 1..Len(mPrev) : \E j \in 1..Len(mNext) :
          /\ mPrev[i].readAt # NullRead
          /\ mNext[j].id = mPrev[i].id
          /\ mNext[j].readAt = NullRead
          /\ mOut[j].readAt = mPrev[i].readAt

\* C6: order preservation.  The events handed to the consumer are, in order and
\* without gap or repetition, the successfully normalized messages in arrival
\* order: a prefix of them at any time, what is not yet handed over is exactly
\* the buffer while the consumer has not cancelled, and all of them once the
\* sequence has ended without cancellation.
C6_OrderPreserved ==
    /\ IsPrefix(delivered, arrived)
    /\ chCancels = 0 => arrived = delivered \o ch.queue
    /\ (chCancels = 0 /\ chCons = "finished" /\ ch.sock # "failed") => delivered = arrived

\* two events were buffered while the consumer was away and both were handed over
C6_Witness ==
    /\ chCancels = 0
    /\ Len(delivered) >= 2
    /\ Len(arrived) > Len(delivered)
    /\ Len(ch.queue) >= 1

\* C7: close does not truncate.  Once the connection has closed or errored after
\* opening and the consumer has not cancelled, the consumer is never left
\* suspended, and it observes the end of the sequence only after every buffered
\* event has been handed to it in order.
C7_CloseDrains ==
    (ch.closed /\ chCancels = 0) =>
        /\ chCons # "pulling"
        /\ ~ch.notify
        /\ chCons = "finished" => (delivered = arrived /\ ch.queue = <<>>)

\* the connection closed with two events buffered and the consumer has since
\* received them all and seen the end
C7_Witness ==
    /\ chCloseBuf >= 2
    /\ chCancels = 0
    /\ chCons = "finished"
    /\ delivered = arrived

\* C2: read state across operation sequences.  A change whose read marker the
\* user has set is never shown unread again, whatever the orchestrator did in
\* between (a new run for the same monitor, a switch away and back, a reload of
\* the monitor list, a re-fetch) and although the snapshots of the backend carry
\* no read marker.
C2_ReadSurvivesOperations ==
    \A i \in 1..Len(changes) :
        changes[i].id \in userRead => changes[i].readAt # NullRead

\* C3: at most one stream.  At most one run is consuming an open stream without
\* having been cancelled.
C3_AtMostOneStream ==
    Cardinality({r \in Runs : /\ runs[r].pc = "streaming"
                              /\ ~runs[r].cancelled
                              /\ chans[r].sock = "open"}) <= 1

\* C4: no merge after cancellation.  cancelled is a latch, and a step in which the
\* loop of a cancelled run receives an answer from its channel leaves the
\* profile, the changes and the active task of the working snapshot as they were.
C4_NoMergeAfterCancel ==
    [][\A r \in Runs :
          /\ runs[r].cancelled => runs'[r].cancelled
          /\ (runs[r].cancelled /\ chans'[r] # chans[r])
                => /\ tenant' = tenant
                   /\ changes' = changes
                   /\ activeTaskId' = activeTaskId]_vars

\* the transport delivered an event to the loop of a run after its cancellation
C4_Witness ==
    \E r \in Runs : runs[r].cancelled /\ runs[r].late /\ runs[r].pc = "done"

\* C5: no cross-contamination.  Whenever no operation is pending (no run, fetch,
\* reload, delete or mark-read), the profile and the changes of the working
\* snapshot are data of a task of the current monitor.
C5_SnapshotOfCurrentMonitor ==
    (/\ \A r \in Runs : runs[r].pc \in {"idle", "done"}
     /\ lmPc = "idle" /\ fetches = {} /\ dels = {} /\ marks = {}) =>
        /\ tenant # 0 => TaskMonitor(tenant) = currentMonitorId
        /\ \A i \in 1..Len(changes) : TaskMonitor(changes[i].content) = currentMonitorId

\* C8: cancellation releases the connection.  A cancel on an open channel leaves
\* the socket closed at once, without a later event of the transport.
C8_CancelReleasesSocket ==
    [][(chCancels' = chCancels + 1 /\ ch.sock = "open") => ch'.sock # "open"]_vars

\* C9: cancellation is idempotent.  A cancel after a first one, or after the
\* sequence has ended, changes nothing of the channel or of what its consumer
\* has received.
C9_CancelIdempotent ==
    [][(chCancels' = chCancels + 1 /\ (chCancels >= 1 \/ ch.gen = "completed"))
          => (ch' = ch /\ chCons' = chCons /\ delivered' = delivered)]_vars

\* cancel was called again on a channel that had received messages, and the
\* generator has ended with the socket released by its finally block
C9_Witness ==
    /\ chCancels >= 2
    /\ chSent >= 1
    /\ ch.gen = "completed"
    /\ ch.sock = "closing"

\* C10: connection-establishment failure.  When the socket of run r errors before
\* it opens, the same step surfaces the connection error, clears the submitting
\* flag and the cancel handle and ends the run without any event merged; the
\* failed channel is never used again and the failure starts no run.
C10_ConnectFailure ==
    [][\A r \in Runs :
          /\ (chans[r].sock = "connecting" /\ chans'[r].sock = "failed")
                => /\ error' = "Unable to establish analysis stream"
                   /\ ~isSubmitting'
                   /\ streamRef' = 0
                   /\ runs'[r].pc = "done"
                   /\ tenant' = tenant /\ changes' = changes
                   /\ nextRun' = nextRun
          /\ chans[r].sock = "failed"
                => (chans'[r] = chans[r] /\ runs'[r].pc = "done")]_vars

\* the stream of a run failed to connect and the run has ended with the error shown
C10_Witness ==
    \E r \in Runs :
        /\ chans[r].sock = "failed"
        /\ runs[r].pc = "done"
        /\ runs[r].sent = 0
        /\ error = "Unable to establish analysis stream"
        /\ ~isSubmitting
        /\ streamRef = 0

\* C11 as stated: a message object normalizes to a stage event exactly when its
\* type tag is "stage" and its stage name is tenant, competitors or changes; every
\* other object normalizes to a status event with the message's stage, or
\* "unknown" when the stage is absent.
C11_ClassifiedByTag ==
    (fnPc = "normalized" /\ fnIn.kind = "object") =>
        IF fnIn.type = "stage" /\ fnIn.stage \in {"tenant", "competitors", "changes"}
        THEN fnOut.type = "stage" /\ fnOut.stage = fnIn.stage
        ELSE /\ fnOut.type = "status"
             /\ fnOut.stage = IF fnIn.stage = Absent THEN "unknown" ELSE fnIn.stage

\* C11 amended: a message object normalizes to a stage event exactly when its
\* type tag is "stage" or is not a string (missing included) and its stage name
\* is tenant, competitors or changes, and the event carries that stage and the
\* message's data; every other object normalizes to a status event with the
\* message's stage, or "unknown" when the stage is absent.
C11_ClassifiedByTagOrDefault ==
    (fnPc = "normalized" /\ fnIn.kind = "object") =>
        IF fnIn.type \in {"stage", Absent}
           /\ fnIn.stage \in {"tenant", "competitors", "changes"}
        THEN fnOut.type = "stage" /\ fnOut.stage = fnIn.stage /\ fnOut.data = fnIn.data
        ELSE /\ fnOut.type = "status"
             /\ fnOut.stage = IF fnIn.stage = Absent THEN "unknown" ELSE fnIn.stage

\* an object without a type tag and with a recognized stage was normalized to a
\* stage event
C11_Witness ==
    /\ fnPc = "normalized"
    /\ fnIn.kind = "object"
    /\ fnIn.type = Absent
    /\ fnIn.stage = "changes"
    /\ fnOut.type = "stage"

\* the messages of raw whose body parsed
Decoded(raw) == SelectSeq(raw, LAMBDA m : m.json)

\* C12: a decoded message is never dropped.  While the consumer has not
\* cancelled, every message whose body parsed has its event handed over or
\* buffered, and the event of a value that is not an object, or of an object with
\* an unrecognized type tag, is a status event.
C12_DecodedNeverDropped ==
    chCancels = 0 =>
        LET events == delivered \o ch.queue
            decoded == Decoded(chRaw)
        IN  /\ Len(events) = Len(decoded)
            /\ \A k \in 1..Len(decoded) :
                  (decoded[k].payload.kind # "object"
                   \/ decoded[k].payload.type \notin {Absent, "stage"})
                      => events[k].type = "status"

\* the events of the messages of raw that parsed to an object, in order
RECURSIVE ValidEvents(_)
ValidEvents(raw) ==
    IF raw = <<>> THEN <<>>
    ELSE (IF Head(raw).json /\ Head(raw).payload.kind = "object"
          THEN <<normalizeEvent(Head(raw).payload)>> ELSE <<>>)
         \o ValidEvents(Tail(raw))

\* C13: transport noise is tolerated.  A body that is not valid JSON is not
\* enqueued and the events of the valid messages before and after it are handed
\* over in order; the sequence ends only when the connection closed or failed to
\* open, never because of noise.
C13_NoiseTolerated ==
    chCancels = 0 =>
        /\ delivered \o ch.queue = ValidEvents(chRaw)
        /\ (chCons = "finished" /\ ch.sock # "failed")
              => (chCloseBuf >= 0 /\ delivered = ValidEvents(chRaw))

\* a body that is not JSON arrived between two valid messages, and both valid
\* messages have been handed to the consumer
C13_Witness ==
    /\ chCancels = 0
    /\ Len(chRaw) = 3
    /\ chRaw[1].json /\ chRaw[1].payload.kind = "object"
    /\ ~chRaw[2].json
    /\ chRaw[3].json /\ chRaw[3].payload.kind = "object"
    /\ Len(delivered) = 2

\* C14: the merge keeps the newer read marker.  For every id of both the local and
\* the incoming snapshot the merged marker is the local one, unless the incoming
\* marker is newer, and then it is the incoming one (null is older than any
\* marker).
C14_KeepsNewerMarker ==
    mPc = "merged" =>
        \A i \in 1..Len(mPrev) : \A j \in 1..Len(mNext) :
            mPrev[i].id = mNext[j].id =>
                mOut[j].readAt = IF mNext[j].readAt > mPrev[i].readAt
                                 THEN mNext[j].readAt ELSE mPrev[i].readAt

\* C15: change membership is server-driven.  The merged list has the ids of the
\* incoming snapshot in the incoming order, its other fields are those of the
\* incoming records, and a change of the local snapshot alone is dropped.
C15_MembershipServerDriven ==
    mPc = "merged" =>
        /\ Len(mOut) = Len(mNext)
        /\ \A j \in 1..Len(mNext) :
              mOut[j].id = mNext[j].id /\ mOut[j].content = mNext[j].content
        /\ \A i \in 1..Len(mPrev) : mPrev[i].id \notin Ids(mNext) => mPrev[i].id \notin Ids(mOut)

\* a merge has run on a local snapshot with a change the incoming one lacks and a
\* change it shares, and the merged list holds the shared change alone
C15_Witness ==
    /\ mPc = "merged"
    /\ Len(mPrev) = 2 /\ Len(mNext) = 1
    /\ mPrev[1].id \notin Ids(mNext)
    /\ mNext[1].id = mPrev[2].id
    /\ Ids(mOut) = Ids(mNext)

\* C16: manual peer additions survive a refresh.  After a competitors snapshot has
\* been applied, the displayed peers are the union by id of the peers the user
\* added (and did not remove) and the peers of the snapshot.
C16_ManualPeersSurvive ==
    (stPc = "applied" /\ stSnap.stage = "competitors") =>
        Ids(competitorCards) = Ids(stSnap.competitors) \cup manual

\* C17: tracked-set bootstrap.  After a competitors snapshot has been applied
\* there is one card per peer of the snapshot, in its order; with an empty
\* tracked-id list every card is tracked, and with a non-empty one a card is
\* tracked exactly when the peer's id or its secondary identifier is in the list.
C17_TrackedBootstrap ==
    (stPc = "applied" /\ stSnap.stage = "competitors") =>
        /\ Len(competitorCards) = Len(stSnap.competitors)
        /\ \A i \in 1..Len(competitorCards) :
              LET peer == stSnap.competitors[i]
                  listed == Range(stSnap.trackedCompetitorIds)
              IN  /\ competitorCards[i].id = peer.id
                  /\ competitorCards[i].tracked =
                        IF listed = {} THEN TRUE
                        ELSE (peer.id \in listed \/ peer.competitorId \in listed)

\* a snapshot with a non-empty tracked-id list was applied: one peer is tracked
\* through its secondary identifier alone, the other is not tracked
C17_Witness ==
    /\ stPc = "applied" /\ stSnap.stage = "competitors"
    /\ Len(competitorCards) = 2
    /\ stSnap.trackedCompetitorIds = <<"k2">>
    /\ \E i, j \in 1..2 :
          /\ competitorCards[i].id = "p2" /\ competitorCards[i].tracked
          /\ competitorCards[j].id = "p1" /\ ~competitorCards[j].tracked

C19_BindsByNormalizedUrl ==
    (fnPc = "submitted" /\ fnIn.url.text = "url") =>
        (fnOut.matched <=>
            /\ fnIn.url.host = fnIn.canonical.host
            /\ (fnIn.url.path = fnIn.canonical.path
                \/ fnIn.url.path \o "/" = fnIn.canonical.path
                \/ fnIn.url.path = fnIn.canonical.path \o "/")
            /\ fnIn.url.query = fnIn.canonical.query
            /\ fnIn.url.hash = fnIn.canonical.hash)

\* C20: a URL that is empty after trimming is rejected before any network call:
\* no task is started, the active channel is not cancelled, the working snapshot
\* is not emptied, and a validation error is shown.
C20_EmptyUrlRejected ==
    (fnPc = "submitted" /\ fnIn.url.text \in {"empty", "blank"}) =>
        /\ ~fnOut.started
        /\ ~fnOut.cancelled
        /\ ~fnOut.cleared
        /\ fnOut.error # "none"

\* C21: switch ordering.  handleSwitchMonitor empties the working snapshot before
\* it issues the one-shot fetch of the target's latest task: after the step that
\* issues the fetch, and so while the fetch is pending or after it has failed,
\* the snapshot holds no profile and no change of another monitor than the target.
C21_SwitchClearsBeforeFetch ==
    [][\A f \in fetches' \ fetches :
          f.from = "switch" =>
              /\ tenant' # 0 => TaskMonitor(tenant') = TaskMonitor(f.task)
              /\ \A i \in 1..Len(changes') :
                    TaskMonitor(changes'[i].content) = TaskMonitor(f.task)]_vars

\* C22: delete.  Once a delete of m has been answered with success and the
\* loadMonitors awaited by handleDeleteMonitor has settled (no delete and no
\* reload is pending), and as long as the backend has not created m anew: m is
\* not in the known monitors, m is not the current monitor, no run bound to m is
\* still consuming its stream uncancelled, and the working snapshot holds no
\* profile and no change of m.
C22_DeletedMonitorGone ==
    (dels = {} /\ lmPc = "idle") =>
        \A m \in Monitors \ srvMon :
            /\ m \notin MonitorIds(monitors)
            /\ currentMonitorId # m
            /\ \A r \in Runs :
                  (runs[r].url = m /\ runs[r].pc = "streaming") => runs[r].cancelled
            /\ tenant # 0 => TaskMonitor(tenant) # m
            /\ \A i \in 1..Len(changes) : TaskMonitor(changes[i].content) # m

C30_NoLostWakeup ==
    /\ []((chCons = "pulling" /\ ch.gen # "awaitOpen")
             => /\ ch.queue = <<>>
                /\ ~ch.closed
                /\ ch.notify
                /\ ch.gen = "awaitNotify")
    /\ \A k \in 1..MaxMsgs :
          (Len(arrived) >= k) ~> (Len(delivered) >= k \/ chCancels > 0)

\* the consumer, resumed once by an event, is suspended again on an empty queue
\* and an open connection
C30_Witness ==
    /\ chCons = "pulling"
    /\ ch.gen = "awaitNotify"
    /\ ch.sock = "open"
    /\ Len(delivered) >= 1
    /\ delivered = arrived
    /\ chCancels = 0

\* C25: bulk mark-read is all-or-nothing.  A bulk mark-read of a non-empty
\* selection issues exactly one batched request, for the selected ids, and leaves
\* the read markers alone; they stay as they are while the request is pending;
\* when it resolves, exactly the changes of the request are marked read; when it
\* rejects, every change is as it was before the call and an error is shown.
C25_BulkAllOrNothing ==
    [][/\ (~isBulkMarkPending /\ isBulkMarkPending')
             => /\ selectedChanges # {}
                /\ bulkSent' = bulkSent + 1
                /\ bulkIds' = selectedChanges
                /\ changes' = changes
       /\ (isBulkMarkPending /\ isBulkMarkPending')
             => (bulkSent' = bulkSent /\ bulkIds' = bulkIds /\ changes' = changes)
       /\ (isBulkMarkPending /\ ~isBulkMarkPending')
             => /\ bulkSent' = bulkSent
                /\ IF selOp' = "bulkOk"
                   THEN /\ Len(changes') = Len(changes)
                        /\ \A i \in 1..Len(changes) :
                              changes'[i] = IF changes[i].id \in bulkIds
                                            THEN [changes[i] EXCEPT !.readAt = ReadNow]
                                            ELSE changes[i]
                   ELSE /\ changes' = changes
                        /\ error' # "none"]_vars

\* a batch for the two unread changes has failed: both are unread, the error is shown
C25_Witness ==
    /\ selOp = "bulkFail"
    /\ bulkIds = {1, 2}
    /\ \A i \in 1..Len(changes) : changes[i].id \in bulkIds => changes[i].readAt = NullRead
    /\ error = RequestFailed
    /\ ~isBulkMarkPending

\* C26: selection mode transitions.  After selecting an item or select-all the
\* feed is in selection mode; after an explicit cancel, or after deselecting the
\* last selected item or un-checking select-all (the selection is then empty),
\* it is out of selection mode.
C26_SelectionModeTransitions ==
    /\ selOp \in {"select", "selectAll"} => isSelectionMode
    /\ selOp = "exit" => ~isSelectionMode
    /\ (selOp \in {"deselect", "deselectAll"} /\ selectedChanges = {}) => ~isSelectionMode

\* C26, amended: after selecting an item or select-all, and whenever an item is
\* selected, the feed is in selection mode; the explicit cancel (Clear or Cancel)
\* empties the selection and leaves selection mode; deselecting an item or
\* un-checking select-all leaves the feed in selection mode, also when the
\* selection has become empty.
C26_SelectionModeExplicitExit ==
    /\ selOp \in {"select", "selectAll"} => isSelectionMode
    /\ selectedChanges # {} => isSelectionMode
    /\ selOp = "exit" => (~isSelectionMode /\ selectedChanges = {})
    /\ selOp \in {"deselect", "deselectAll"} => isSelectionMode

\* the last selected item has been deselected and the feed is in selection mode
C26_Witness ==
    /\ selOp = "deselect"
    /\ selectedChanges = {}
    /\ isSelectionMode

\* C27: the selection is scoped to the visible subset.  Every selected id is the
\* id of a change of the filtered current page, so that a bulk mark-read, which
\* targets the selection, targets visible changes only.
C27_SelectionVisible ==
    selectedChanges \subseteq Ids(Visible)

\* C23: rename is optimistic and not rolled back.  While the rename call of
\* monitor m to name n is pending the local record of m carries n, and after the
\* call has failed the error is shown and the local name of m is still n.
C23_RenameOptimistic ==
    /\ (pendingCall # <<>> /\ pendingCall.kind = "rename")
          => NameOf(monitors, pendingCall.id) = pendingCall.name
    /\ (lastCall # <<>> /\ lastCall.call.kind = "rename" /\ ~lastCall.ok)
          => /\ error = lastCall.message
             /\ NameOf(monitors, lastCall.call.id) = lastCall.call.name

\* C23, amended: rename is applied on the answer of the server.  While the rename
\* call is pending the monitors are as they were before the call; after the call
\* has failed the error is shown and the monitors are as they were before the
\* call; after it has succeeded the record of m is the record the server
\* returned and the other records are as they were.
C23_RenameAfterAnswer ==
    /\ (pendingCall # <<>> /\ pendingCall.kind = "rename")
          => monitors = pendingCall.before
    /\ (lastCall # <<>> /\ lastCall.call.kind = "rename" /\ ~lastCall.ok)
          => /\ error = lastCall.message
             /\ monitors = lastCall.call.before
    /\ (lastCall # <<>> /\ lastCall.call.kind = "rename" /\ lastCall.ok)
          => /\ Len(monitors) = Len(lastCall.call.before)
             /\ \A i \in 1..Len(monitors) :
                   monitors[i] = IF lastCall.call.before[i].id = lastCall.call.id
                                 THEN [id |-> lastCall.call.id,
                                       name |-> lastCall.answer[1].name]
                                 ELSE lastCall.call.before[i]

\* a rename of a monitor named "a" to "b" has failed: the error is shown and the
\* local name is "a"
C23_Witness ==
    /\ lastCall # <<>>
    /\ lastCall.call.kind = "rename"
    /\ ~lastCall.ok
    /\ lastCall.call.name = "b"
    /\ NameOf(monitors, lastCall.call.id) = "a"
    /\ error = lastCall.message

\* C29: authorization downgrade.  After a failed monitor call (list, create,
\* rename, delete), peer call (track, untrack) or archive call (archives,
\* archive), the access flag is false when the message of the error tells
\* unauthorized, forbidden or authentication, and is what it was before the
\* call otherwise.
C29_AuthDowngrade ==
    (lastCall # <<>> /\ ~lastCall.ok) =>
        IF lastCall.message \in {"Unauthorized", "403 Forbidden", "Authentication required"}
        THEN ~hasMonitorAccess
        ELSE hasMonitorAccess = lastCall.call.access

\* C24: load-monitors coalescing.  At most one request is in flight, the ref holds
\* it exactly while it is in flight, and a caller waits only for the request in
\* flight (so it goes on when that request settles); a call made while a request
\* is in flight issues no fetch and awaits that request, a call made while none
\* is in flight issues one fresh fetch and awaits it.
C24_LoadCoalesced ==
    /\ [](/\ Cardinality(inFlight) <= 1
          /\ loadMonitorsPromiseRef = 0 <=> inFlight = {}
          /\ \A q \in inFlight : loadMonitorsPromiseRef = q.id
          /\ \A c \in Callers : waiting[c] # 0 => \E q \in inFlight : q.id = waiting[c])
    /\ [][\A c \in Callers :
             (waiting[c] = 0 /\ waiting'[c] # 0) =>
                 IF inFlight # {}
                 THEN /\ issued' = issued
                      /\ inFlight' = inFlight
                      /\ \E q \in inFlight : waiting'[c] = q.id
                 ELSE /\ issued' = issued + 1
                      /\ inFlight' = {[id |-> issued', phase |-> "list"]}
                      /\ waiting'[c] = issued']_vars

\* after a first request has settled a second one is in flight, and two callers
\* await it
C24_Witness ==
    /\ issued = 2
    /\ Cardinality({c \in Callers : waiting[c] = 2}) = 2
    /\ inFlight = {[id |-> 2, phase |-> "results"]}

\* the entries of the competitors payload that the adapter keeps, in order
C31_Kept == SelectSeq(fnIn.data.competitors, IsObject)

C32_ThreatLevelInScale ==
    fnIn.stage = "changes" =>
        \A r \in 1..Len(fnOut) : \A i \in 1..Len(fnOut[r].list) :
            LET given == SelectSeq(fnIn.data.changes, IsObject)[i].threat_level
                threatLevel == fnOut[r].list[i].threatLevel
            IN  /\ 0 <= threatLevel /\ threatLevel <= 100
                /\ (\/ given.t \in {"undefined", "null", "boolean"}
                    \/ given.t = "number" /\ ~given.fin
                    \/ given.t = "string" /\ given.s = <<"abc">>) => threatLevel = 50

\* C33: peer cap.  The adapted peer list is the adaptation of the first 10 object
\* entries of the payload list, in payload order: it never has more than 10
\* entries, and entries beyond the tenth are dropped.
C33_PeerCap ==
    fnIn.stage = "competitors" =>
        \A r \in 1..Len(fnOut) :
            /\ Len(fnOut[r].list) <= 10
            /\ Len(fnOut[r].list) = IF Len(C31_Kept) < 10 THEN Len(C31_Kept) ELSE 10
            /\ \A i \in 1..Len(fnOut[r].list) :
                  fnOut[r].list[i] = adaptCompetitor(C31_Kept[i], i - 1)

\* a payload of eleven object entries is adapted to the first ten peers
C33_Witness ==
    /\ fnIn.stage = "competitors"
    /\ Len(fnOut) > 0
    /\ Len(C31_Kept) = 11
    /\ Len(fnOut[1].list) = 10
    /\ fnOut[1].list[10].id = <<"p", "10">>

\* C34: id synthesis stability.  Two adapter runs on the same payload (the same
\* fields missing, the same remaining content), at whatever times and in
\* whatever order, give every entry the same id.
C34_IdsStable ==
    \A r, q \in 1..Len(fnOut) :
        /\ Len(fnOut[r].list) = Len(fnOut[q].list)
        /\ \A i \in 1..Len(fnOut[r].list) : fnOut[r].list[i].id = fnOut[q].list[i].id

\* two runs at different times on a changes payload whose entries lack id and
\* timestamp: the timestamps differ, the ids are the synthesized ones
C34_Witness ==
    /\ fnIn.stage = "changes"
    /\ Len(fnOut) = 2
    /\ fnOut[1].now # fnOut[2].now
    /\ Len(fnOut[1].list) = 2
    /\ fnOut[1].list[2].timestamp # fnOut[2].list[2].timestamp
    /\ fnOut[2].list[2].id = <<"change-", "1">>

\* C38: adapted peer ids are pairwise distinct, for every payload in which no two
\* entries carry the same id, competitor_id, domain or URL, including payloads
\* in which several entries lack all four.
C38_PeerIdsDistinct ==
    (/\ fnIn.stage = "competitors"
     /\ \A i, j \in 1..Len(C31_Kept) :
           i # j =>
               /\ Nullish(C31_Kept[i].id) \/ C31_Kept[i].id.s # C31_Kept[j].id.s
               /\ Nullish(C31_Kept[i].competitor_id)
                  \/ C31_Kept[i].competitor_id # C31_Kept[j].competitor_id
               /\ Nullish(C31_Kept[i].domain) \/ C31_Kept[i].domain # C31_Kept[j].domain
               /\ Nullish(C31_Kept[i].primary_url)
                  \/ C31_Kept[i].primary_url # C31_Kept[j].primary_url) =>
        \A r \in 1..Len(fnOut) : \A i, j \in 1..Len(fnOut[r].list) :
            fnOut[r].list[i].id = fnOut[r].list[j].id => i = j

\* C39: single mark-read.  When the mark-read call of change c settles, resolved
\* or rejected, c's marker is non-null afterwards, a marker that was non-null
\* keeps its value, every other change is as before, and no error is surfaced.
C39_MarkReadLocal ==
    [][(pendingCall # <<>> /\ pendingCall' = <<>>) =>
          /\ Len(changes') = Len(changes)
          /\ error' = error
          /\ \A i \in 1..Len(changes) :
                IF changes[i].id = pendingCall.id
                THEN /\ changes'[i].readAt # NullRead
                     /\ changes[i].readAt # NullRead => changes'[i].readAt = changes[i].readAt
                     /\ changes'[i].id = changes[i].id
                ELSE changes'[i] = changes[i]]_vars

\* the call for an unread change was rejected: the change is read, no error shown
C39_Witness ==
    /\ lastCall # <<>>
    /\ ~lastCall.ok
    /\ lastCall.was = NullRead
    /\ pendingCall = <<>>
    /\ MarkerOf(changes, lastCall.id) = ReadNow
    /\ \E i \in 1..Len(changes) : changes[i].readAt \notin {NullRead, ReadNow}
    /\ error = "none"

\* C40: a failed untrack call.  When the untrack request for a displayed peer
\* fails, the error is surfaced and the tracked ids and the displayed peers (the
\* peer among them) are what they were before the call.
C40_FailedUntrackKeepsPeers ==
    [][\A id \in PeerIds \cup ManualIds :
          RemoveCompetitor(id, FALSE) =>
              /\ error' = RequestFailed
              /\ trackedCompetitorIds' = trackedCompetitorIds
              /\ competitorCards' = competitorCards
              /\ id \in Ids(competitorCards')]_vars

C36_RehydrationEqualsLive ==
    (fnOut.loaded /\ fnOut.at = Len(fnIn)) => fnOut.live = fnOut.replay

\* C35: active-channel handle integrity.  Whenever the stream loop of a run is
\* active and the run has not been cancelled, streamRef holds the handle of that
\* run: no cleanup of an earlier run has cleared or replaced it.
C35_HandleOfActiveRun ==
    \A r \in Runs :
        (runs[r].pc = "streaming" /\ ~runs[r].cancelled) => streamRef = r

====
